---- MODULE Spec2Model ----
(***************************************************************************)
(* Vendor risk analysis pipeline of c0mpiled-psu (apps/web): the in-memory *)
(* vendor store, the background pipeline run started by triggerAnalysis,   *)
(* and the route handlers that read the store.                            *)
(*                                                                         *)
(* JavaScript runs one task at a time: code between two awaits is one      *)
(* atomic step.  Every action below is one such step: a handler up to its  *)
(* response, or a pipeline run from the resumption of one await to the     *)
(* next await (or to the end of runPipeline).                              *)
(***************************************************************************)
EXTENDS Integers, Sequences, FiniteSets, TLC

(***************************************************************************)
(* Bounds of the model.                                                    *)
(***************************************************************************)
\* number of distinct strings generateVendorId can return (36^8 in the code)
MaxIds == 2
\* number of triggerAnalysis calls (VendorEntry objects ever allocated)
MaxEntries == 2
\* longest ids list of a compare request
MaxCompareIds == 2

\* z.string().min(1).max(200) of AnalyzeRequestSchema
MinNameLen == 1
MaxNameLen == 200
\* estimatedCompletionSeconds returned by triggerAnalysis
EstimatedCompletionSeconds == 15

(***************************************************************************)
(* null | T values: Null is the empty tuple, a present value v is <<v>>.   *)
(***************************************************************************)
Null == <<>>
Some(v) == <<v>>
Val(opt) == opt[1]
IsNull(opt) == opt = <<>>

\* the ids generateVendorId can draw, and one id it never draws
Ids == 1..MaxIds
UnknownId == MaxIds + 1
\* VendorEntry objects, in allocation order
Objs == 1..MaxEntries

\* new Date().toISOString(): the value is not modelled, only that it is set
Timestamp == "ts"

(***************************************************************************)
(* JavaScript numbers.  A finite number n is <<n>>, null/undefined is      *)
(* Null, and NaN or +-Infinity is NonFinite.  Fractional quantities are    *)
(* kept as integers in hundredths (3.5 is 350).                            *)
(***************************************************************************)
NonFinite == <<"NaN", "NaN">>
Num(n) == <<n>>
isFinite(x) == Len(x) = 1

(***************************************************************************)
(* DataSourceResult constructors (types/research.ts).  data is Null or     *)
(* Some(payload): the fmp fetchers pass a null payload when the schema     *)
(* parse falls back.                                                       *)
(***************************************************************************)
sourceSuccess(source, data) ==
    [source |-> source, success |-> TRUE, data |-> data, error |-> Null,
     fetchedAt |-> Timestamp]

sourceError(source, error) ==
    [source |-> source, success |-> FALSE, data |-> Null, error |-> Some(error),
     fetchedAt |-> Timestamp]

(***************************************************************************)
(* The fourteen fetches of aggregateCompanyData and the payload each       *)
(* returns when its provider answers.  Only the fields read downstream     *)
(* (partitioner, scorer, response builders) are kept.                      *)
(***************************************************************************)
Fetchers ==
    {"profile", "stockQuote", "historicalPrices", "incomeStatements",
     "balanceSheets", "cashFlows", "financialHealth", "secFilings",
     "supplyChainNews", "litigationNews", "macroIndicators",
     "environmentalViolations", "oshaInspections", "webResearch"}

SamplePayload(f) ==
    CASE f = "profile" ->
           [sector |-> "Technology", country |-> "United States",
            employees |-> Num(500000)]
      [] f = "stockQuote" ->
           [price |-> Num(15000), changePercent |-> Num(150),
            volume |-> Num(100000), marketCap |-> Num(900000), pe |-> Null]
      [] f = "historicalPrices" -> <<>>
      [] f = "financialHealth" ->
           [altmanZScore |-> Num(350), piotroskiScore |-> Null,
            debtToEquity |-> Num(250), currentRatio |-> Null,
            quickRatio |-> Null, returnOnEquity |-> Null,
            returnOnAssets |-> Null]
      [] f = "secFilings" -> <<"10-K", "10-Q">>
      [] f = "supplyChainNews" -> <<[url |-> "u1"], [url |-> "u2"]>>
      [] f = "litigationNews" -> <<[url |-> "u2"], [url |-> "u3"]>>
      [] f = "macroIndicators" ->
           <<[seriesId |-> "GSCPI", observations |-> <<Num(120)>>]>>
      [] f = "environmentalViolations" ->
           <<[state |-> "PA", penaltyAmount |-> Num(0)]>>
      [] OTHER -> <<>>

\* FinancialHealthSchema parse of {} -> every field null
EmptyHealth ==
    [altmanZScore |-> Null, piotroskiScore |-> Null, debtToEquity |-> Null,
     currentRatio |-> Null, quickRatio |-> Null, returnOnEquity |-> Null,
     returnOnAssets |-> Null]

SourceName(f) ==
    CASE f = "profile" -> "fmp:profile"
      [] f = "stockQuote" -> "fmp:quote"
      [] f = "historicalPrices" -> "fmp:historical"
      [] f = "incomeStatements" -> "fmp:income"
      [] f = "balanceSheets" -> "fmp:balance"
      [] f = "cashFlows" -> "fmp:cashflow"
      [] f = "financialHealth" -> "fmp:health"
      [] f = "secFilings" -> "edgar:filings"
      [] f = "supplyChainNews" -> "newsapi:supply-chain"
      [] f = "litigationNews" -> "newsapi:litigation"
      [] f = "macroIndicators" -> "fred:macro"
      [] f = "environmentalViolations" -> "epa:violations"
      [] f = "oshaInspections" -> "osha:inspections"
      [] OTHER -> "firecrawl:research"

(***************************************************************************)
(* What one provider does during a fetch:                                  *)
(*   success  a 2xx response whose body matches the fetcher's schema       *)
(*   non2xx   a response with response.ok false: the fetch helper throws   *)
(*   throws   fetch itself (or the key lookup before it) throws            *)
(*   invalid  a 2xx response whose record(s) fail the schema               *)
(*   empty    a 2xx response that holds no record at all                   *)
(* A 2xx body of the wrong container type makes the fetcher throw inside   *)
(* its try block, which is the outcome throws.                             *)
(***************************************************************************)
ProviderOutcomes == {"success", "non2xx", "throws", "invalid", "empty"}

\* fetchFinancialHealth, the two news fetchers, fetchSupplyChainIndicators
\* and researchCompanySupplyChain catch the failure of their inner calls
\* themselves (.catch(() => []), a skipped sourceError, Promise.allSettled)
SwallowingFetchers ==
    {"supplyChainNews", "litigationNews", "macroIndicators", "webResearch"}

\* fetchers whose payload is one record, parsed with safeParse(schema, x, null)
RecordFetchers == {"profile", "stockQuote"}

Thrown(message) == [thrown |-> TRUE, message |-> message]
Value(v) == [thrown |-> FALSE, value |-> v]

\* a merge in which the article seen last for a url replaces the earlier one
RECURSIVE dedupe_LastSeenWins(_, _)
dedupe_LastSeenWins(articles, seen) ==
    IF articles = <<>> THEN <<>>
    ELSE IF \E i \in 2..Len(articles) : articles[i].url = Head(articles).url
         THEN dedupe_LastSeenWins(Tail(articles), seen)
         ELSE <<Head(articles)>> \o dedupe_LastSeenWins(Tail(articles), seen)

\* deduplicateArticles, and the loop of mergeNewsResults: first seen wins
RECURSIVE dedupe(_, _)
dedupe(articles, seen) ==
    IF articles = <<>> THEN <<>>
    ELSE IF Head(articles).url \in seen THEN dedupe(Tail(articles), seen)
    ELSE <<Head(articles)>> \o dedupe(Tail(articles), seen \cup {Head(articles).url})

\* searchNews for one query of news fetcher f: the provider's articles that
\* parse, or a sourceError with the message of what newsApiFetch threw
searchNews(f, outcome) ==
    IF outcome \in {"non2xx", "throws"}
    THEN sourceError("newsapi:search", "provider request failed")
    ELSE sourceSuccess("newsapi:search",
                       Some(IF outcome = "success" THEN SamplePayload(f) ELSE <<>>))

(***************************************************************************)
(* The try block of fetcher f: the value it returns, or the error it       *)
(* throws.  A news fetcher runs its three queries one after the other and  *)
(* keeps the articles of those that succeeded; the provider treats the     *)
(* three alike.                                                            *)
(***************************************************************************)
FetchBody(f, outcome) ==
    LET source == SourceName(f)
        failed == outcome \in {"non2xx", "throws"}
        result == searchNews(f, outcome)
        articles == IF result.success /\ ~IsNull(result.data)
                    THEN Val(result.data) ELSE <<>>
    IN CASE f \in {"supplyChainNews", "litigationNews"} ->
              Value(sourceSuccess(source,
                        Some(dedupe(articles \o articles \o articles, {}))))
         [] f \notin {"supplyChainNews", "litigationNews"} /\ outcome = "success" ->
              Value(sourceSuccess(source, Some(SamplePayload(f))))
         [] f = "financialHealth" /\ outcome # "success" ->
              \* scores and ratios fall back to {}, every field parses to null
              Value(sourceSuccess(source, Some(EmptyHealth)))
         [] f \in {"macroIndicators", "webResearch"} /\ failed ->
              Value(sourceSuccess(source, Some(<<>>)))
         [] f = "macroIndicators" /\ ~failed /\ outcome # "success" ->
              \* the series is kept, without the observations that fail
              Value(sourceSuccess(source,
                        Some(<<[seriesId |-> "GSCPI", observations |-> <<>>]>>)))
         [] f \notin SwallowingFetchers /\ f # "financialHealth" /\ failed ->
              Thrown("provider request failed")
         [] f \in RecordFetchers /\ outcome = "empty" ->
              \* if (!item) return sourceError(...)
              Value(sourceError(source, "no record found"))
         [] f \in RecordFetchers /\ outcome = "invalid" ->
              \* safeParse falls back to null, which sourceSuccess wraps
              Value(sourceSuccess(source, Null))
         [] f = "secFilings" /\ outcome = "empty" ->
              \* resolveCik found no entry for the ticker
              Value(sourceError(source, "could not resolve CIK"))
         [] OTHER ->
              \* safeParseArray drops the items that fail, [] when none is left
              Value(sourceSuccess(source, Some(<<>>)))

\* a promise that rejects instead of resolving to a DataSourceResult
Rejected(message) == [rejected |-> message]
IsRejected(r) == "rejected" \in DOMAIN r

\* fetcher f without its catch block: what its try block throws is a rejection
Fetch_WithoutCatch(f, outcome) ==
    LET body == FetchBody(f, outcome)
    IN IF body.thrown THEN Rejected(body.message) ELSE body.value

\* fetcher f as a whole: try { body } catch (err) { return sourceError(...) }
Fetch(f, outcome) ==
    LET body == FetchBody(f, outcome)
    IN IF body.thrown THEN sourceError(SourceName(f), body.message)
       ELSE body.value

\* what a fetcher returns when its provider answers (ok) or its HTTP call fails
FetchResult(f, ok) == Fetch(f, IF ok THEN "success" ELSE "non2xx")

(***************************************************************************)
(* mergeNewsResults: first-seen-wins union by url of the successful        *)
(* results; when nothing was merged, a sourceError carrying the first      *)
(* error among the results, or "No news found".                            *)
(***************************************************************************)
mergeNewsResults(results) ==
    LET usable(r) == r.success /\ ~IsNull(r.data)
        RECURSIVE concat(_)
        concat(i) == IF i > Len(results) THEN <<>>
                     ELSE (IF usable(results[i]) THEN Val(results[i].data) ELSE <<>>)
                          \o concat(i + 1)
        merged == dedupe(concat(1), {})
        withError == {i \in 1..Len(results) : ~IsNull(results[i].error)}
        firstError == IF withError = {} THEN "No news found"
                      ELSE Val(results[CHOOSE i \in withError :
                                          \A j \in withError : i <= j].error)
    IN IF Len(merged) > 0
       THEN [source |-> "newsapi:merged", success |-> TRUE, data |-> Some(merged),
             error |-> Null, fetchedAt |-> Timestamp]
       ELSE sourceError("newsapi:merged", firstError)

(***************************************************************************)
(* aggregateCompanyData: Promise.all over the fourteen fetches, then the   *)
(* news merge.  results[f] is what fetch f settled with; Promise.all       *)
(* rejects with the first rejection among them, and aggregateCompanyData   *)
(* with it.                                                                *)
(***************************************************************************)
FetchOrder ==
    <<"profile", "stockQuote", "historicalPrices", "incomeStatements",
      "balanceSheets", "cashFlows", "financialHealth", "secFilings",
      "supplyChainNews", "litigationNews", "macroIndicators",
      "environmentalViolations", "oshaInspections", "webResearch">>

aggregate(company, results) ==
    LET rejected == {i \in 1..Len(FetchOrder) : IsRejected(results[FetchOrder[i]])}
    IN IF rejected # {}
       THEN results[FetchOrder[CHOOSE i \in rejected : \A j \in rejected : i <= j]]
       ELSE [company |-> company,
             profile |-> results["profile"],
             stockQuote |-> results["stockQuote"],
             historicalPrices |-> results["historicalPrices"],
             incomeStatements |-> results["incomeStatements"],
             balanceSheets |-> results["balanceSheets"],
             cashFlows |-> results["cashFlows"],
             financialHealth |-> results["financialHealth"],
             secFilings |-> results["secFilings"],
             news |-> mergeNewsResults(<<results["supplyChainNews"],
                                         results["litigationNews"]>>),
             macroIndicators |-> results["macroIndicators"],
             environmentalViolations |-> results["environmentalViolations"],
             oshaInspections |-> results["oshaInspections"],
             webResearch |-> results["webResearch"]]

\* aggregateCompanyData when provider f behaves as outcomes[f]
aggregateOutcomes(company, outcomes) ==
    aggregate(company, [f \in Fetchers |-> Fetch(f, outcomes[f])])

\* okSet is the set of fetches whose provider answered; the others get a non-2xx
aggregateCompanyData(company, okSet) ==
    aggregateOutcomes(company,
        [f \in Fetchers |-> IF f \in okSet THEN "success" ELSE "non2xx"])

(***************************************************************************)
(* Variable partitioner (partitioner.ts).                                  *)
(***************************************************************************)
\* obj?.field, for a field that is itself number | null
Field(opt, f) == IF IsNull(opt) THEN Null ELSE Val(opt)[f]
\* obj?.field, for a field that is always present in obj
FieldOpt(opt, f) == IF IsNull(opt) THEN Null ELSE Some(Val(opt)[f])

RECURSIVE SeqSum(_)
SeqSum(s) == IF s = <<>> THEN 0 ELSE Head(s) + SeqSum(Tail(s))

\* the result of resolveIndustry on the sector strings of the model
resolveIndustry(sectorRaw) ==
    IF IsNull(sectorRaw) \/ sectorRaw = Some("Unknown") THEN "Unknown"
    ELSE CASE Val(sectorRaw) = "Technology" -> "Technology"
           [] Val(sectorRaw) = "Financial Services" -> "Finance"
           [] Val(sectorRaw) = "Energy" -> "Energy"
           [] OTHER -> "Unknown"

SEVERITY_SCORE(severity) ==
    CASE severity = "low" -> 1
      [] severity = "medium" -> 2
      [] severity = "high" -> 3
      [] severity = "critical" -> 4
      [] OTHER -> 0

\* variable(): Null when the value is null, undefined or not finite
variable(name, value, category, industry) ==
    IF IsNull(value) \/ ~isFinite(value) THEN Null
    ELSE Some([name |-> name, value |-> value[1], category |-> category,
               industry |-> industry])

MACRO_SERIES_CATEGORY(seriesId) ==
    CASE seriesId = "DCOILWTICO" -> Some([category |-> "financial", displayName |-> "crude_oil_wti_price"])
      [] seriesId = "PCUOMFG" -> Some([category |-> "financial", displayName |-> "ppi_manufacturing"])
      [] seriesId = "PPIACO" -> Some([category |-> "financial", displayName |-> "ppi_all_commodities"])
      [] seriesId = "GSCPI" -> Some([category |-> "operational", displayName |-> "global_supply_chain_pressure_index"])
      [] seriesId = "MANEMP" -> Some([category |-> "operational", displayName |-> "manufacturing_employment"])
      [] seriesId = "NAPMII" -> Some([category |-> "operational", displayName |-> "ism_inventories_index"])
      [] seriesId = "NAPMSDI" -> Some([category |-> "operational", displayName |-> "ism_supplier_deliveries_index"])
      [] seriesId = "TOTALSA" -> Some([category |-> "operational", displayName |-> "total_vehicle_sales"])
      [] seriesId = "BOPGSTB" -> Some([category |-> "geographical", displayName |-> "trade_balance_goods_services"])
      [] OTHER -> Null

(***************************************************************************)
(* computeHistoricalVolatility.  Logarithms and square roots are outside   *)
(* TLA+; the model admits only price series whose closes are all equal,    *)
(* for which the annualized volatility is exactly 0 (and null when the     *)
(* closes are 0, every return being skipped).                              *)
(***************************************************************************)
computeHistoricalVolatility(prices) ==
    IF IsNull(prices) \/ Len(Val(prices)) < 10 THEN Null
    ELSE IF \A i \in 1..Len(Val(prices)) : Val(prices)[i] = 0 THEN Null
    ELSE Num(0)

\* the signals of an evaluation whose category is in cats, in order
SignalsIn(evaluated, cats) ==
    SelectSeq(Val(evaluated).riskSignals, LAMBDA s : s.category \in cats)

AggregateSeverity(signals) ==
    SeqSum([i \in 1..Len(signals) |-> SEVERITY_SCORE(signals[i].severity)])

appendMacroVariables(data, category, industry) ==
    LET indicators == data.macroIndicators.data
        one(ind) ==
            LET mapping == MACRO_SERIES_CATEGORY(ind.seriesId)
            IN IF IsNull(mapping) \/ Val(mapping).category # category THEN <<>>
               ELSE IF ind.observations = <<>> \/ IsNull(ind.observations[1]) THEN <<>>
               ELSE variable(Val(mapping).displayName, ind.observations[1],
                             category, industry)
        RECURSIVE walk(_)
        walk(inds) == IF inds = <<>> THEN <<>>
                      ELSE one(Head(inds)) \o walk(Tail(inds))
    IN IF IsNull(indicators) THEN <<>> ELSE walk(Val(indicators))

extractFinancialVariables(data, evaluated, industry) ==
    LET quote == data.stockQuote.data
        health == data.financialHealth.data
        v(name, value) == variable(name, value, "financial", industry)
        base ==
            v("stock_price", Field(quote, "price"))
            \o v("price_change_pct", Field(quote, "changePercent"))
            \o v("trading_volume", Field(quote, "volume"))
            \o v("market_cap", Field(quote, "marketCap"))
            \o v("pe_ratio", Field(quote, "pe"))
            \o v("altman_z_score", Field(health, "altmanZScore"))
            \o v("piotroski_score", Field(health, "piotroskiScore"))
            \o v("debt_to_equity", Field(health, "debtToEquity"))
            \o v("current_ratio", Field(health, "currentRatio"))
            \o v("quick_ratio", Field(health, "quickRatio"))
            \o v("return_on_equity", Field(health, "returnOnEquity"))
            \o v("return_on_assets", Field(health, "returnOnAssets"))
            \o v("annualized_volatility",
                 computeHistoricalVolatility(data.historicalPrices.data))
        signals == SignalsIn(evaluated, {"financial"})
        fromEval ==
            IF IsNull(evaluated) THEN <<>>
            ELSE v("financial_risk_signal_count", Num(100 * Len(signals)))
                 \o v("financial_risk_severity_score",
                      Num(100 * AggregateSeverity(signals)))
    IN base \o fromEval \o appendMacroVariables(data, "financial", industry)

extractOperationalVariables(data, evaluated, industry) ==
    LET v(name, value) == variable(name, value, "operational", industry)
        signals == SignalsIn(evaluated, {"supply_chain"})
        fromEval ==
            IF IsNull(evaluated) THEN <<>>
            ELSE v("supply_chain_risk_signal_count", Num(100 * Len(signals)))
                 \o v("supply_chain_risk_severity_score",
                      Num(100 * AggregateSeverity(signals)))
                 \o v("supply_chain_insight_count",
                      Num(100 * Len(Val(evaluated).supplyChainInsights)))
        filings == data.secFilings.data
        news == data.news.data
    IN v("employee_count", Field(data.profile.data, "employees"))
       \o fromEval
       \o (IF IsNull(filings) THEN <<>>
           ELSE v("sec_filing_count", Num(100 * Len(Val(filings)))))
       \o (IF IsNull(news) THEN <<>>
           ELSE v("news_article_count", Num(100 * Len(Val(news)))))
       \o appendMacroVariables(data, "operational", industry)

extractGeographicalVariables(data, evaluated, industry) ==
    LET v(name, value) == variable(name, value, "geographical", industry)
        violations == data.environmentalViolations.data
        list == Val(violations)
        known == SelectSeq(list, LAMBDA x : x.state # "Unknown")
        states == {known[i].state : i \in 1..Len(known)}
        countIn(st) == Cardinality({i \in 1..Len(known) : known[i].state = st})
        maxInSingleState ==
            IF states = {} THEN 0
            ELSE countIn(CHOOSE st \in states : \A o \in states : countIn(o) <= countIn(st))
        totalFacilities == Len(known)
        fromViolations ==
            IF IsNull(violations) \/ Len(list) = 0 THEN <<>>
            ELSE v("facility_state_count", Num(100 * Cardinality(states)))
                 \o v("facility_count", Num(100 * Len(list)))
                 \o (IF totalFacilities > 0
                     THEN v("geographic_concentration_ratio",
                            Num((100 * maxInSingleState) \div totalFacilities))
                     ELSE <<>>)
    IN fromViolations \o appendMacroVariables(data, "geographical", industry)

\* sum of penaltyAmount ?? 0; one NaN makes the sum NaN
TotalPenalties(list) ==
    LET amount(x) == IF IsNull(x.penaltyAmount) THEN Num(0) ELSE x.penaltyAmount
    IN IF \E i \in 1..Len(list) : ~isFinite(amount(list[i])) THEN NonFinite
       ELSE Num(SeqSum([i \in 1..Len(list) |-> amount(list[i])[1]]))

extractEthicalVariables(data, evaluated, industry) ==
    LET v(name, value) == variable(name, value, "ethical", industry)
        violations == data.environmentalViolations.data
        fromViolations ==
            IF IsNull(violations) THEN <<>>
            ELSE v("environmental_violation_count", Num(100 * Len(Val(violations))))
                 \o v("environmental_total_penalties", TotalPenalties(Val(violations)))
        forCat(cat) ==
            LET signals == SignalsIn(evaluated, {cat})
            IN v(cat \o "_risk_signal_count", Num(100 * Len(signals)))
               \o v(cat \o "_risk_severity_score",
                    Num(100 * AggregateSeverity(signals)))
        fromEval ==
            IF IsNull(evaluated) THEN <<>>
            ELSE forCat("regulatory") \o forCat("litigation")
                 \o forCat("environmental") \o forCat("safety")
    IN fromViolations \o fromEval

partitionVariables(aggregated, evaluated) ==
    LET industry == resolveIndustry(FieldOpt(aggregated.profile.data, "sector"))
    IN [company |-> aggregated.company,
        industry |-> industry,
        financial |-> extractFinancialVariables(aggregated, evaluated, industry),
        operational |-> extractOperationalVariables(aggregated, evaluated, industry),
        geographical |-> extractGeographicalVariables(aggregated, evaluated, industry),
        ethical |-> extractEthicalVariables(aggregated, evaluated, industry)]

\* names of the variables the partitioner derives from the evaluation
EvaluationDerivedNames ==
    {"financial_risk_signal_count", "financial_risk_severity_score",
     "supply_chain_risk_signal_count", "supply_chain_risk_severity_score",
     "supply_chain_insight_count",
     "regulatory_risk_signal_count", "regulatory_risk_severity_score",
     "litigation_risk_signal_count", "litigation_risk_severity_score",
     "environmental_risk_signal_count", "environmental_risk_severity_score",
     "safety_risk_signal_count", "safety_risk_severity_score"}

(***************************************************************************)
(* Risk scorer (risk-scorer.ts).  Variable values and benchmark            *)
(* contributions are in hundredths; scores are integers.                   *)
(***************************************************************************)
\* Math.min that lets its second argument through
Min_Uncapped(a, b) == b

Max(a, b) == IF a >= b THEN a ELSE b
Min(a, b) == IF a <= b THEN a ELSE b
Abs(a) == IF a < 0 THEN -a ELSE a

Categories == <<"financial", "operational", "geographical", "ethical">>

FINANCIAL_BENCHMARKS ==
    <<"altman_z_score", "piotroski_score", "debt_to_equity", "current_ratio",
      "quick_ratio", "annualized_volatility", "return_on_equity",
      "return_on_assets", "price_change_pct">>
OPERATIONAL_BENCHMARKS ==
    <<"supply_chain_risk_severity_score", "supply_chain_risk_signal_count",
      "global_supply_chain_pressure_index", "ism_supplier_deliveries_index">>
GEOGRAPHICAL_BENCHMARKS ==
    <<"geographic_concentration_ratio", "facility_state_count">>
ETHICAL_BENCHMARKS ==
    <<"environmental_violation_count", "environmental_total_penalties",
      "regulatory_risk_severity_score", "litigation_risk_severity_score",
      "environmental_risk_severity_score", "safety_risk_severity_score">>

BENCHMARKS_BY_CATEGORY(cat) ==
    CASE cat = "financial" -> FINANCIAL_BENCHMARKS
      [] cat = "operational" -> OPERATIONAL_BENCHMARKS
      [] cat = "geographical" -> GEOGRAPHICAL_BENCHMARKS
      [] cat = "ethical" -> ETHICAL_BENCHMARKS

\* riskFn of the benchmark rule for a variable: value v and result in hundredths
riskFn(variableName, v) ==
    CASE variableName = "altman_z_score" ->
           IF v > 299 THEN 1500 ELSE IF v > 181 THEN 5000 ELSE 8500
      [] variableName = "piotroski_score" -> Max(0, Min(10000, (900 - v) * 11))
      [] variableName = "debt_to_equity" ->
           IF v < 50 THEN 1500 ELSE IF v < 100 THEN 3000
           ELSE IF v < 200 THEN 5500 ELSE IF v < 300 THEN 7500 ELSE 9000
      [] variableName = "current_ratio" ->
           IF v > 200 THEN 1000 ELSE IF v > 150 THEN 2500
           ELSE IF v > 100 THEN 5000 ELSE 8000
      [] variableName = "quick_ratio" ->
           IF v > 150 THEN 1000 ELSE IF v > 100 THEN 3000
           ELSE IF v > 50 THEN 6000 ELSE 8500
      [] variableName = "annualized_volatility" ->
           IF v < 20 THEN 1500 ELSE IF v < 35 THEN 3500
           ELSE IF v < 50 THEN 6000 ELSE 8500
      [] variableName = "return_on_equity" ->
           IF v > 20 THEN 1000 ELSE IF v > 10 THEN 2500
           ELSE IF v > 0 THEN 4500 ELSE 8000
      [] variableName = "return_on_assets" ->
           IF v > 10 THEN 1000 ELSE IF v > 5 THEN 3000
           ELSE IF v > 0 THEN 5000 ELSE 8000
      [] variableName = "price_change_pct" ->
           IF Abs(v) < 200 THEN 1500 ELSE IF Abs(v) < 500 THEN 3500
           ELSE IF Abs(v) < 1000 THEN 6000 ELSE 8000
      [] variableName = "supply_chain_risk_severity_score" -> Min(10000, v * 20)
      [] variableName = "supply_chain_risk_signal_count" -> Min(10000, v * 15)
      [] variableName = "global_supply_chain_pressure_index" ->
           IF v < -50 THEN 1500 ELSE IF v < 50 THEN 3500
           ELSE IF v < 150 THEN 6000 ELSE 8500
      [] variableName = "ism_supplier_deliveries_index" ->
           IF v < 5000 THEN 2000 ELSE IF v < 5500 THEN 4000
           ELSE IF v < 6000 THEN 6500 ELSE 8500
      [] variableName = "geographic_concentration_ratio" ->
           IF v < 30 THEN 1500 ELSE IF v < 50 THEN 3500
           ELSE IF v < 70 THEN 6000 ELSE 8500
      [] variableName = "facility_state_count" ->
           IF v > 1000 THEN 1500 ELSE IF v > 500 THEN 3000
           ELSE IF v > 200 THEN 5000 ELSE 7500
      [] variableName = "environmental_violation_count" ->
           IF v = 0 THEN 1000 ELSE IF v < 300 THEN 3500
           ELSE IF v < 1000 THEN 6000 ELSE 8500
      [] variableName = "environmental_total_penalties" ->
           IF v = 0 THEN 1000 ELSE IF v < 5000000 THEN 3000
           ELSE IF v < 50000000 THEN 5500
           ELSE IF v < 500000000 THEN 7500 ELSE 9000
      [] variableName \in {"regulatory_risk_severity_score",
                            "litigation_risk_severity_score",
                            "environmental_risk_severity_score",
                            "safety_risk_severity_score"} -> Min(10000, v * 18)

\* the weights 1 to 4 of the partitioner's SEVERITY_SCORE in place of 10 to 90
SEVERITY_WEIGHT_Ordinal(severity) == SEVERITY_SCORE(severity)

SEVERITY_WEIGHT(severity) ==
    CASE severity = "low" -> 10
      [] severity = "medium" -> 30
      [] severity = "high" -> 60
      [] severity = "critical" -> 90
      [] OTHER -> 30

CATEGORY_EVAL_FILTERS(cat) ==
    CASE cat = "financial" -> {"financial", "macro"}
      [] cat = "operational" -> {"supply_chain"}
      [] cat = "geographical" -> {"supply_chain", "macro"}
      [] cat = "ethical" -> {"regulatory", "litigation", "environmental", "safety"}

CATEGORY_LABELS(cat) ==
    CASE cat = "financial" -> "Financial"
      [] cat = "operational" -> "Operational"
      [] cat = "geographical" -> "Geopolitical"
      [] cat = "ethical" -> "Regulatory & Ethical"

\* Math.round(total / n + 3 n), capped at 100; 50 without evaluation, 35 without signal
computeEvaluationRisk(evaluated, categoryFilter) ==
    IF IsNull(evaluated) THEN 50
    ELSE LET signals == SignalsIn(evaluated, categoryFilter)
             n == Len(signals)
             total == SeqSum([i \in 1..n |-> SEVERITY_WEIGHT(signals[i].severity)])
         IN IF n = 0 THEN 35
            ELSE Min(100, (2 * total + 6 * n * n + n) \div (2 * n))

\* scoreCategory with an even blend: Math.round(benchmarkAvg * 0.5 + evaluationRisk * 0.5)
scoreCategory_EvenBlend(variables, benchmarks, evaluationRisk) ==
    LET found(b) == {i \in 1..Len(variables) : variables[i].name = b}
        first(b) == variables[CHOOSE i \in found(b) : \A j \in found(b) : i <= j]
        present == SelectSeq(benchmarks, LAMBDA b : found(b) # {})
        n == Len(present)
        sum == SeqSum([i \in 1..n |-> riskFn(present[i], first(present[i]).value)])
    IN IF n = 0 THEN evaluationRisk
       ELSE (sum + 100 * evaluationRisk * n + 100 * n) \div (200 * n)

\* Math.round(benchmarkAvg * 0.6 + evaluationRisk * 0.4), in exact arithmetic
scoreCategory(variables, benchmarks, evaluationRisk) ==
    LET found(b) == {i \in 1..Len(variables) : variables[i].name = b}
        first(b) == variables[CHOOSE i \in found(b) : \A j \in found(b) : i <= j]
        present == SelectSeq(benchmarks, LAMBDA b : found(b) # {})
        n == Len(present)
        sum == SeqSum([i \in 1..n |-> riskFn(present[i], first(present[i]).value)])
    IN IF n = 0 THEN evaluationRisk
       ELSE (12 * sum + 800 * evaluationRisk * n + 1000 * n) \div (2000 * n)

\* riskLevelFromScore with the cut points counted into the lower band
riskLevelFromScore_CutsInclusive(score) ==
    IF score <= 30 THEN "Low" ELSE IF score <= 55 THEN "Moderate"
    ELSE IF score <= 75 THEN "High" ELSE "Critical"

riskLevelFromScore(score) ==
    IF score < 30 THEN "Low" ELSE IF score < 55 THEN "Moderate"
    ELSE IF score < 75 THEN "High" ELSE "Critical"

resilienceRatingFromScore(score) ==
    IF score < 30 THEN "Poor" ELSE IF score < 55 THEN "Moderate"
    ELSE IF score < 75 THEN "Strong" ELSE "Excellent"

\* clamp that bounds the value given in halves without halving it
clampHalves_Unhalved(h) == Max(0, Min(100, h))

\* clamp of a value given in halves: Math.max(0, Math.min(100, Math.round(h / 2)))
clampHalves(h) == Max(0, Min(100, (h + 1) \div 2))
clamp(value) == Max(0, Min(100, value))

(***************************************************************************)
(* randomJitter(8) = (Math.random() - 0.5) * 8 lies in [-4, 4).  A draw is *)
(* represented in halves, -8..7: after rounding these give every           *)
(* resilience score the real-valued draw can give.                         *)
(***************************************************************************)
JitterHalves == -8..7

\* riskDistribution as whole percents: Math.round((riskScore / totalRisk) * 100)
riskDistribution_WholePercents(categoryScores) ==
    LET totalRisk == SeqSum([i \in 1..4 |-> categoryScores[i].riskScore])
    IN [i \in 1..4 |->
           [label |-> categoryScores[i].label,
            percentage |->
               IF totalRisk > 0
               THEN 10 * ((200 * categoryScores[i].riskScore + totalRisk)
                              \div (2 * totalRisk))
               ELSE 250]]

\* riskDistribution: Math.round((riskScore / totalRisk) * 1000) / 10, kept in
\* tenths of a percent; 25 (250 tenths) for every category when totalRisk is 0
riskDistribution(categoryScores) ==
    LET totalRisk == SeqSum([i \in 1..4 |-> categoryScores[i].riskScore])
    IN [i \in 1..4 |->
           [label |-> categoryScores[i].label,
            percentage |->
               IF totalRisk > 0
               THEN (2000 * categoryScores[i].riskScore + totalRisk) \div (2 * totalRisk)
               ELSE 250]]

\* computeRiskScores; jitter[i] is the draw for the i-th category
computeRiskScores(partitioned, evaluated, jitter) ==
    LET categoryScores ==
            [i \in 1..4 |->
                LET cat == Categories[i]
                    evalRisk == computeEvaluationRisk(evaluated, CATEGORY_EVAL_FILTERS(cat))
                    riskScore == scoreCategory(partitioned[cat],
                                               BENCHMARKS_BY_CATEGORY(cat), evalRisk)
                    resilienceHalves ==
                        Max(0, Min(200, 200 - 2 * riskScore + jitter[i]))
                IN [category |-> cat,
                    label |-> CATEGORY_LABELS(cat),
                    riskScore |-> clamp(riskScore),
                    resilienceScore |-> clampHalves(resilienceHalves),
                    riskLevel |-> riskLevelFromScore(riskScore)]]
        weights == <<35, 25, 20, 20>>
        overallRiskScore ==
            (2 * SeqSum([i \in 1..4 |-> categoryScores[i].riskScore * weights[i]]) + 100)
                \div 200
        overallResilienceScore ==
            (2 * SeqSum([i \in 1..4 |-> categoryScores[i].resilienceScore * weights[i]]) + 100)
                \div 200
        byCat(cat) == categoryScores[CHOOSE i \in 1..4 : Categories[i] = cat]
    IN [overallRiskScore |-> clamp(overallRiskScore),
        overallRiskLevel |-> riskLevelFromScore(overallRiskScore),
        overallResilienceScore |-> clamp(overallResilienceScore),
        resilienceRating |-> resilienceRatingFromScore(overallResilienceScore),
        categoryScores |-> categoryScores,
        riskDistribution |-> riskDistribution(categoryScores),
        resilienceFactors |->
            <<[label |-> "Geographic Diversification",
               score |-> byCat("geographical").resilienceScore],
              [label |-> "Financial Stability",
               score |-> byCat("financial").resilienceScore],
              [label |-> "Operational Redundancy",
               score |-> byCat("operational").resilienceScore]>>]

(***************************************************************************)
(* Response builders and fallback generators (vendor-analyzer.ts).  Free   *)
(* text is kept as a tag naming its origin; the jittered sub-category     *)
(* scores are not part of these records, and the 12-month trend of the     *)
(* overview is the result of generateRiskTrend, modelled on its own below. *)
(***************************************************************************)
OrElse(opt, default) == IF IsNull(opt) THEN default ELSE Val(opt)

buildOverviewResponse(vendorId, vendorName, aggregated, riskScores) ==
    LET profile == aggregated.profile.data
    IN [vendor_id |-> vendorId,
        vendor_name |-> vendorName,
        risk_distribution |-> riskScores.riskDistribution,
        risk_level |-> riskScores.overallRiskLevel,
        resilience_rating |-> riskScores.resilienceRating,
        resilience_score |-> riskScores.overallResilienceScore,
        resilience_score_max |-> 100,
        resilience_factors |-> riskScores.resilienceFactors,
        industry |->
            [sector |-> IF IsNull(profile) THEN "Unknown" ELSE Val(profile).sector,
             hq_country |-> IF IsNull(profile) THEN "Unknown" ELSE Val(profile).country]]

\* CategoryDescriptionResult[] as returned by the reasoning service
LLMCategoryDescriptions ==
    [i \in 1..4 |-> [categoryId |-> Categories[i], description |-> "llm"]]

buildFallbackCategoryDescriptions(riskScores) ==
    [i \in 1..Len(riskScores.categoryScores) |->
        [categoryId |-> riskScores.categoryScores[i].category,
         description |-> "fallback"]]

buildRiskBreakdownResponse(vendorId, riskScores, categoryDescriptions) ==
    [vendor_id |-> vendorId,
     overall_risk_score |-> riskScores.overallRiskScore,
     overall_risk_level |-> riskScores.overallRiskLevel,
     overall_resilience_score |-> riskScores.overallResilienceScore,
     categories |->
        [i \in 1..Len(riskScores.categoryScores) |->
            LET cs == riskScores.categoryScores[i]
                match == {j \in 1..Len(categoryDescriptions) :
                            categoryDescriptions[j].categoryId = cs.category}
            IN [id |-> cs.category,
                label |-> cs.label,
                risk_score |-> cs.riskScore,
                risk_level |-> cs.riskLevel,
                resilience_score |-> cs.resilienceScore,
                description |->
                    IF match = {} THEN "default"
                    ELSE categoryDescriptions[CHOOSE j \in match :
                                                \A k \in match : j <= k].description]]]

\* DependenciesResponse built from the reasoning service's tree
LLMDependencies(vendorId) ==
    [vendor_id |-> vendorId, origin |-> "llm"]

buildFallbackDependencies(vendorId, aggregated) ==
    [vendor_id |-> vendorId, origin |-> "fallback",
     summary |-> [tier2_count |-> 3, tier3_count |-> 5, countries_represented |-> 3,
                  sectors_represented |-> 2, critical_dependency_count |-> 1],
     sector |-> OrElse(FieldOpt(aggregated.profile.data, "sector"), "Unknown"),
     country |-> OrElse(FieldOpt(aggregated.profile.data, "country"), "US")]

(***************************************************************************)
(* State.                                                                  *)
(*   heap     the VendorEntry objects ever created, in creation order; an  *)
(*            object reference is an index into heap                       *)
(*   store    the Map<string, VendorEntry>: per id the reference it holds, *)
(*            0 when the map has no such key                               *)
(*   run      per VendorEntry object, the runPipeline call started for it: *)
(*            the await it is suspended at and its local variables         *)
(*   response the HTTP response produced by the step just taken, Null for  *)
(*            a pipeline step                                              *)
(*   call     a call of one library function taken on its own: its name,   *)
(*            its arguments and, once it has returned, its result; Null    *)
(*            while the store and the pipeline are what runs               *)
(***************************************************************************)
VARIABLES heap, store, run, response, call

vars == <<heap, store, run, response, call>>

Allocated == 1..Len(heap)

\* store.get(id): Null for a missing key, else the reference
getRef(id) == IF id \in Ids /\ store[id] # 0 THEN Some(store[id]) ELSE Null

\* getVendor: the entry the map holds for the id, or Null (undefined)
getVendor(vendorId) ==
    IF IsNull(getRef(vendorId)) THEN Null ELSE Some(heap[Val(getRef(vendorId))])

\* getVendorResult: store.get(vendorId)?.result ?? null
getVendorResult(vendorId) ==
    IF IsNull(getVendor(vendorId)) THEN Null ELSE Val(getVendor(vendorId)).result

getMultipleVendorResults(vendorIds) ==
    [i \in 1..Len(vendorIds) |-> getVendorResult(vendorIds[i])]

(***************************************************************************)
(* Request bodies of POST /vendors/analyze.  A vendor name is kept as its  *)
(* length, which is all AnalyzeRequestSchema looks at.                     *)
(***************************************************************************)
Bodies ==
    {[kind |-> "not_json"], [kind |-> "no_vendor_name"], [kind |-> "not_a_string"]}
    \cup {[kind |-> "string", len |-> n] :
            n \in {MinNameLen - 1, MaxNameLen, MaxNameLen + 1}}

\* a schema without .max(200)
AnalyzeRequestSchema_NoMax(body) ==
    /\ body.kind = "string"
    /\ body.len >= MinNameLen

\* AnalyzeRequestSchema.safeParse(body).success
AnalyzeRequestSchema(body) ==
    /\ body.kind = "string"
    /\ body.len >= MinNameLen
    /\ body.len <= MaxNameLen

\* locals of a runPipeline call that has not passed its first await; calls
\* is the set of steps 2 to 9 the call has entered so far
NewRun(vendorId, vendorName) ==
    [pc |-> "resolveFMP", vendorId |-> vendorId, vendorName |-> vendorName,
     resolved |-> Null, aggregated |-> Null, evaluated |-> Null,
     partitioned |-> Null, riskScores |-> Null, overview |-> Null,
     riskBreakdown |-> Null, calls |-> {}]

(***************************************************************************)
(* triggerAnalysis(vendorName), with vendorId the string generateVendorId  *)
(* drew: creates the entry, store.set(vendorId, entry), and runs           *)
(* runPipeline up to its first await (resolveFMP inside                    *)
(* resolveVendorTicker), which happens before triggerAnalysis returns.     *)
(***************************************************************************)
triggerAnalysis(vendorName, vendorId) ==
    LET entry == [vendorId |-> vendorId, vendorName |-> vendorName,
                  status |-> "processing", error |-> Null, result |-> Null,
                  createdAt |-> Timestamp, completedAt |-> Null]
    IN /\ heap' = Append(heap, entry)
       /\ store' = [store EXCEPT ![vendorId] = Len(heap) + 1]
       /\ run' = Append(run, NewRun(vendorId, vendorName))

\* POST /vendors/analyze
POST(body, vendorId) ==
    /\ IF body.kind = "not_json"
       THEN /\ response' = Some([route |-> "analyze", status |-> 422,
                                 code |-> "ANALYSIS_FAILED"])
            /\ UNCHANGED <<heap, store, run, call>>
       ELSE IF ~AnalyzeRequestSchema(body)
       THEN /\ response' = Some([route |-> "analyze", status |-> 422,
                                 code |-> "ANALYSIS_FAILED"])
            /\ UNCHANGED <<heap, store, run, call>>
       ELSE /\ Len(heap) < MaxEntries
            /\ triggerAnalysis(body.len, vendorId)
            /\ UNCHANGED call
            /\ response' = Some([route |-> "analyze", status |-> 202,
                                 vendor_id |-> vendorId, vendor_name |-> body.len,
                                 state |-> "processing",
                                 estimated_completion_seconds |->
                                    EstimatedCompletionSeconds])

(***************************************************************************)
(* Answers of the outside services a pipeline run waits for.               *)
(***************************************************************************)
\* resolveFMP: a match, or null (no key, HTTP error, empty list, exception)
ResolvedCompany == [ticker |-> "ACME", name |-> "Acme Corp"]

FMPAnswers == {"match", "null"}

\* resolveLLM: the confidence the reasoning service reports, or a thrown error
LLMResolveAnswers == {"high", "medium", "low", "throws"}

\* evaluateCompanyData: the EvaluatedData built from the service's object
Evaluation(company, riskSignals) ==
    [company |-> company, riskSignals |-> riskSignals,
     supplyChainInsights |-> <<"llm">>, evaluationSummary |-> "llm"]

SampleRiskSignals ==
    { <<[category |-> "financial", severity |-> "critical"],
        [category |-> "supply_chain", severity |-> "high"],
        [category |-> "regulatory", severity |-> "low"]>> }

\* the draws of randomJitter for the four categories
SampleJitters == { <<-8, 7, -1, 0>> }

\* which provider fetches answer, in the runs of the store specification
SampleOkSets == { Fetchers }

SetRun(o, r) == run' = [run EXCEPT ![o] = r]

\* a runPipeline call that has returned: its locals are gone
Returned(L) ==
    [NewRun(L.vendorId, L.vendorName) EXCEPT !.pc = "done", !.calls = L.calls]

\* a catch block that records the error and leaves the status as it is
Fail_WithoutStatus(o, message) ==
    /\ heap' = [heap EXCEPT ![o] = [@ EXCEPT !.error = Some(message),
                                             !.completedAt = Some(Timestamp)]]
    /\ SetRun(o, Returned(run[o]))

\* the catch block of runPipeline
Fail(o, message) ==
    /\ heap' = [heap EXCEPT ![o] = [@ EXCEPT !.status = "failed",
                                             !.error = Some(message),
                                             !.completedAt = Some(Timestamp)]]
    /\ SetRun(o, Returned(run[o]))

\* the VendorAnalysisResult assembled at the end of the try block
Result(L, dependencies) ==
    LET aggregated == Val(L.aggregated)
        evaluatedResult ==
            IF IsNull(L.evaluated)
            THEN [company |-> aggregated.company, riskSignals |-> <<>>,
                  supplyChainInsights |-> <<"unavailable">>,
                  evaluationSummary |-> "data-only"]
            ELSE Val(L.evaluated)
    IN [vendorId |-> L.vendorId, vendorName |-> L.vendorName,
        ticker |-> Val(L.resolved).ticker,
        riskScores |-> Val(L.riskScores),
        overview |-> Val(L.overview),
        dependencies |-> dependencies,
        riskBreakdown |-> Val(L.riskBreakdown),
        aggregated |-> aggregated,
        evaluated |-> evaluatedResult,
        partitioned |-> Val(L.partitioned)]

\* an end of the try block that stores the result without completedAt
Complete_WithoutStamp(o, L, dependencies) ==
    /\ heap' = [heap EXCEPT ![o] = [@ EXCEPT !.result = Some(Result(L, dependencies)),
                                             !.status = "complete"]]
    /\ SetRun(o, Returned(L))

\* the end of the try block of runPipeline: the result is stored
Complete(o, L, dependencies) ==
    /\ heap' = [heap EXCEPT ![o] = [@ EXCEPT !.result = Some(Result(L, dependencies)),
                                             !.status = "complete",
                                             !.completedAt = Some(Timestamp)]]
    /\ SetRun(o, Returned(L))

\* steps 4 to 6: the locals after partitioning, scoring and the overview
Steps4to6(L, evaluated, partitioned, riskScores, overview) ==
    [L EXCEPT !.evaluated = evaluated,
              !.partitioned = Some(partitioned),
              !.riskScores = Some(riskScores),
              !.overview = Some(overview),
              !.calls = @ \cup {"partitionVariables", "computeRiskScores",
                                "buildOverviewResponse"}]

\* step 7 when it ends in its catch block
Step7Fallback(L) ==
    [descriptions |-> buildFallbackCategoryDescriptions(Val(L.riskScores)),
     locals |-> [L EXCEPT !.calls = @ \cup {"buildFallbackCategoryDescriptions"}]]

\* step 8: the locals after the risk breakdown is built
Step8(L, categoryDescriptions) ==
    [L EXCEPT !.riskBreakdown =
                 Some(buildRiskBreakdownResponse(L.vendorId, Val(L.riskScores),
                                                 categoryDescriptions)),
              !.calls = @ \cup {"buildRiskBreakdownResponse"}]

\* step 9 when it ends in its catch block, and the end of the try block
Step9Fallback(o, L) ==
    Complete(o, [L EXCEPT !.calls = @ \cup {"buildFallbackDependencies"}],
             buildFallbackDependencies(L.vendorId, Val(L.aggregated)))

\* a variant of step 9 without its test of evaluated
AfterDescriptions_AlwaysAsksService(o, L, categoryDescriptions) ==
    \E L8 \in {Step8(L, categoryDescriptions)} :
        /\ SetRun(o, [L8 EXCEPT !.pc = "generateDependencyTree",
                                !.calls = @ \cup {"generateDependencyTree"}])
        /\ UNCHANGED heap

\* steps 8 and 9, entered with the category descriptions of step 7
AfterDescriptions(o, L, categoryDescriptions) ==
    \E L8 \in {Step8(L, categoryDescriptions)} :
        IF IsNull(L8.evaluated)
        THEN Step9Fallback(o, L8)
        ELSE /\ SetRun(o, [L8 EXCEPT !.pc = "generateDependencyTree",
                                     !.calls = @ \cup {"generateDependencyTree"}])
             /\ UNCHANGED heap

\* steps 4 to 7, entered with the outcome of the evaluation pass
AfterEvaluate(o, L, evaluated, jitter) ==
    \E partitioned \in {partitionVariables(Val(L.aggregated), evaluated)} :
    \E riskScores \in {computeRiskScores(partitioned, evaluated, jitter)} :
    \E overview \in {buildOverviewResponse(L.vendorId, L.vendorName,
                                           Val(L.aggregated), riskScores)} :
    \E L6 \in {Steps4to6(L, evaluated, partitioned, riskScores, overview)} :
        IF IsNull(evaluated)
        THEN \E f \in {Step7Fallback(L6)} :
                AfterDescriptions(o, f.locals, f.descriptions)
        ELSE /\ SetRun(o, [L6 EXCEPT !.pc = "generateCategoryDescriptions",
                                     !.calls = @ \cup {"generateCategoryDescriptions"}])
             /\ UNCHANGED heap

\* a variant that also stamps the entry when step 2 is entered
StartAggregate_StampsEntry(o, resolved) ==
    /\ SetRun(o, [run[o] EXCEPT !.pc = "aggregateCompanyData",
                                !.resolved = Some(resolved),
                                !.calls = @ \cup {"aggregateCompanyData"}])
    /\ heap' = [heap EXCEPT ![o] = [@ EXCEPT !.completedAt = Some(Timestamp)]]

\* step 2 is entered: aggregateCompanyData starts its fetches
StartAggregate(o, resolved) ==
    /\ SetRun(o, [run[o] EXCEPT !.pc = "aggregateCompanyData",
                                !.resolved = Some(resolved),
                                !.calls = @ \cup {"aggregateCompanyData"}])
    /\ UNCHANGED heap

Suspended(o, pc) == o \in Allocated /\ run[o].pc = pc

\* resolveFMP settles
ResolveFMPReturns(o, answer) ==
    /\ Suspended(o, "resolveFMP")
    /\ IF answer = "match"
       THEN StartAggregate(o, ResolvedCompany)
       ELSE /\ SetRun(o, [run[o] EXCEPT !.pc = "resolveLLM"])
            /\ UNCHANGED heap
    /\ UNCHANGED call
    /\ response' = Null
    /\ UNCHANGED store

\* a variant that takes the reasoning service's ticker whatever its confidence
ResolveLLMReturns_AcceptsLowConfidence(o, answer) ==
    /\ Suspended(o, "resolveLLM")
    /\ IF answer \in {"high", "medium", "low"}
       THEN StartAggregate(o, ResolvedCompany)
       ELSE Fail(o, "Could not resolve vendor")
    /\ UNCHANGED call
    /\ response' = Null
    /\ UNCHANGED store

\* resolveLLM settles
ResolveLLMReturns(o, answer) ==
    /\ Suspended(o, "resolveLLM")
    /\ IF answer \in {"high", "medium"}
       THEN StartAggregate(o, ResolvedCompany)
       ELSE Fail(o, "Could not resolve vendor")
    /\ UNCHANGED call
    /\ response' = Null
    /\ UNCHANGED store

\* aggregateCompanyData settles, the providers in one of okSets having
\* answered; the evaluation pass is started
AggregateReturns(o, okSets) ==
    /\ Suspended(o, "aggregateCompanyData")
    /\ \E okSet \in okSets :
        SetRun(o, [run[o] EXCEPT
            !.pc = "evaluateCompanyData",
            !.aggregated = Some(aggregateCompanyData(Val(run[o].resolved), okSet)),
            !.calls = @ \cup {"evaluateCompanyData"}])
    /\ UNCHANGED call
    /\ response' = Null
    /\ UNCHANGED <<heap, store>>

\* a variant without the try/catch around the evaluation pass
EvaluateReturns_Uncaught(o, signals, jitter) ==
    /\ Suspended(o, "evaluateCompanyData")
    /\ IF IsNull(signals)
       THEN Fail(o, "evaluation failed")
       ELSE AfterEvaluate(o, run[o],
                Some(Evaluation(Val(run[o].aggregated).company, Val(signals))),
                jitter)
    /\ UNCHANGED call
    /\ response' = Null
    /\ UNCHANGED store

\* evaluateCompanyData settles: by throwing (signals = Null), or with the
\* EvaluatedData built from the risk signals the reasoning service returned
EvaluateReturns(o, signals, jitter) ==
    /\ Suspended(o, "evaluateCompanyData")
    /\ AfterEvaluate(o, run[o],
            IF IsNull(signals) THEN Null
            ELSE Some(Evaluation(Val(run[o].aggregated).company, Val(signals))),
            jitter)
    /\ UNCHANGED call
    /\ response' = Null
    /\ UNCHANGED store

\* generateCategoryDescriptions settles: ok, or by throwing
DescriptionsReturn(o, ok) ==
    /\ Suspended(o, "generateCategoryDescriptions")
    /\ IF ok
       THEN AfterDescriptions(o, run[o], LLMCategoryDescriptions)
       ELSE \E f \in {Step7Fallback(run[o])} :
                AfterDescriptions(o, f.locals, f.descriptions)
    /\ UNCHANGED call
    /\ response' = Null
    /\ UNCHANGED store

\* generateDependencyTree settles: ok, or by throwing
DependenciesReturn(o, ok) ==
    /\ Suspended(o, "generateDependencyTree")
    /\ IF ok
       THEN Complete(o, run[o], LLMDependencies(run[o].vendorId))
       ELSE Step9Fallback(o, run[o])
    /\ UNCHANGED call
    /\ response' = Null
    /\ UNCHANGED store

(***************************************************************************)
(* Read routes.  errorResponse and jsonResponse are kept as records of     *)
(* the route, the status code, the error code, the message and the body.   *)
(***************************************************************************)
errorResponse(route, code, message, status) ==
    [route |-> route, status |-> status, code |-> code,
     message |-> message, body |-> Null]

jsonResponse(route, data) ==
    [route |-> route, status |-> 200, code |-> "OK",
     message |-> Null, body |-> Some(data)]

\* GET /vendors/{vendorId}/status
StatusResponse(vendorId) ==
    LET vendor == getVendor(vendorId)
    IN IF IsNull(vendor)
       THEN errorResponse("status", "VENDOR_NOT_FOUND", Some("not found"), 404)
       ELSE jsonResponse("status", [vendor_id |-> Val(vendor).vendorId,
                                    status |-> Val(vendor).status])

\* a variant that answers STILL_PROCESSING for every entry that is not complete
DependenciesResponse_NotCompleteIsProcessing(vendorId) ==
    LET vendor == getVendor(vendorId)
    IN IF IsNull(vendor)
       THEN errorResponse("dependencies", "VENDOR_NOT_FOUND", Some("not found"), 404)
       ELSE IF Val(vendor).status # "complete"
       THEN errorResponse("dependencies", "STILL_PROCESSING", Some("poll"), 202)
       ELSE jsonResponse("dependencies", Val(Val(vendor).result).dependencies)

\* GET /vendors/{vendorId}/dependencies
DependenciesResponse(vendorId) ==
    LET vendor == getVendor(vendorId)
    IN IF IsNull(vendor)
       THEN errorResponse("dependencies", "VENDOR_NOT_FOUND", Some("not found"), 404)
       ELSE IF Val(vendor).status = "processing"
       THEN errorResponse("dependencies", "STILL_PROCESSING", Some("poll"), 202)
       ELSE IF Val(vendor).status = "failed" \/ IsNull(Val(vendor).result)
       THEN errorResponse("dependencies", "ANALYSIS_FAILED",
                          Some(OrElse(Val(vendor).error, "Analysis failed.")), 422)
       ELSE jsonResponse("dependencies", Val(Val(vendor).result).dependencies)

\* GET /vendors/{vendorId}/overview
OverviewResponse(vendorId) ==
    LET vendor == getVendor(vendorId)
    IN IF IsNull(vendor)
       THEN errorResponse("overview", "VENDOR_NOT_FOUND", Some("not found"), 404)
       ELSE IF Val(vendor).status = "processing"
       THEN errorResponse("overview", "STILL_PROCESSING", Some("poll"), 202)
       ELSE IF Val(vendor).status = "failed" \/ IsNull(Val(vendor).result)
       THEN errorResponse("overview", "ANALYSIS_FAILED",
                          Some(OrElse(Val(vendor).error, "Analysis failed.")), 422)
       ELSE jsonResponse("overview", Val(Val(vendor).result).overview)

\* GET /vendors/{vendorId}/risk-breakdown
RiskBreakdownResponse(vendorId) ==
    LET vendor == getVendor(vendorId)
    IN IF IsNull(vendor)
       THEN errorResponse("risk-breakdown", "VENDOR_NOT_FOUND", Some("not found"), 404)
       ELSE IF Val(vendor).status = "processing"
       THEN errorResponse("risk-breakdown", "STILL_PROCESSING", Some("poll"), 202)
       ELSE IF Val(vendor).status = "failed" \/ IsNull(Val(vendor).result)
       THEN errorResponse("risk-breakdown", "ANALYSIS_FAILED",
                          Some(OrElse(Val(vendor).error, "Analysis failed.")), 422)
       ELSE jsonResponse("risk-breakdown", Val(Val(vendor).result).riskBreakdown)

Tabs == {"overview", "dependencies", "risk-breakdown"}

TabResponse(tab, vendorId) ==
    CASE tab = "overview" -> OverviewResponse(vendorId)
      [] tab = "dependencies" -> DependenciesResponse(vendorId)
      [] tab = "risk-breakdown" -> RiskBreakdownResponse(vendorId)

RequestIds == Ids \cup {UnknownId}

GETStatus(vendorId) ==
    /\ UNCHANGED call
    /\ response' = Some(StatusResponse(vendorId))
    /\ UNCHANGED <<heap, store, run>>

GETDependencies(vendorId) ==
    /\ UNCHANGED call
    /\ response' = Some(DependenciesResponse(vendorId))
    /\ UNCHANGED <<heap, store, run>>

GETOverview(vendorId) ==
    /\ UNCHANGED call
    /\ response' = Some(OverviewResponse(vendorId))
    /\ UNCHANGED <<heap, store, run>>

GETRiskBreakdown(vendorId) ==
    /\ UNCHANGED call
    /\ response' = Some(RiskBreakdownResponse(vendorId))
    /\ UNCHANGED <<heap, store, run>>

(***************************************************************************)
(* GET /vendors/compare?ids=...                                            *)
(* The ids parameter is Null when absent, else its comma-separated         *)
(* segments; a segment is its text (Null for no text, else one id) and     *)
(* whether white space surrounds it.  A winnerIndex is kept in halves, so  *)
(* that an odd value is a non-integer index.                               *)
(***************************************************************************)
Segments == [pad : BOOLEAN, text : {Null} \cup {Some(id) : id \in RequestIds}]

RECURSIVE SeqsUpTo(_, _)
SeqsUpTo(S, n) ==
    IF n = 0 THEN {<<>>}
    ELSE LET shorter == SeqsUpTo(S, n - 1)
         IN shorter \cup {Append(q, x) : q \in shorter, x \in S}

\* the requests tried: white space is put around the first segment only
IdsParams ==
    {Null} \cup {Some(q) : q \in {p \in SeqsUpTo(Segments, MaxCompareIds) \ {<<>>} :
                                    \A i \in 2..Len(p) : ~p[i].pad}}

\* idsParam.split(",").map(id => id.trim()).filter(Boolean)
splitTrimFilter(segments) ==
    LET trimmed == [i \in 1..Len(segments) |-> segments[i].text]
        kept == SelectSeq(trimmed, LAMBDA t : ~IsNull(t))
    IN [i \in 1..Len(kept) |-> Val(kept[i])]

\* !idsParam: null, or the empty string
IsFalsyParam(idsParam) ==
    \/ IsNull(idsParam)
    \/ Val(idsParam) = <<[pad |-> FALSE, text |-> Null]>>

ComparisonAnswers ==
    {[kind |-> "throws", winnerIndex |-> 0, confidence |-> "Low"]}
    \cup [kind : {"object"}, winnerIndex : {-2, 0, 1, 2, 2 * MaxCompareIds},
          confidence : {"High"}]

\* the vendors array of a ComparisonResponse
comparisonVendors(vendors) ==
    [i \in 1..Len(vendors) |->
        [vendor_id |-> vendors[i].vendorId,
         vendor_name |-> vendors[i].vendorName,
         overall_risk_score |-> vendors[i].riskScores.overallRiskScore,
         resilience_score |-> vendors[i].riskScores.overallResilienceScore,
         category_scores |->
            [k \in 1..Len(vendors[i].riskScores.categoryScores) |->
                [category |-> vendors[i].riskScores.categoryScores[k].label,
                 risk_score |-> vendors[i].riskScores.categoryScores[k].riskScore]]]]

\* a variant that reads the winner with optional chaining: an index that names
\* no vendor gives a recommendation with no vendor's id (0 stands for
\* undefined) instead of a TypeError
generateComparison_OptionalWinner(vendors, answer) ==
    IF answer.kind = "throws" THEN Null
    ELSE LET winnerIdx == Min(answer.winnerIndex, 2 * (Len(vendors) - 1))
             named == winnerIdx >= 0 /\ winnerIdx % 2 = 0
         IN Some([recommendation |->
                     [winner_vendor_id |->
                         IF named THEN vendors[winnerIdx \div 2 + 1].vendorId ELSE 0,
                      winner_vendor_name |-> 0,
                      confidence |-> answer.confidence,
                      summary |-> "llm"],
                  vendors |-> comparisonVendors(vendors)])

\* generateComparison: Null when it throws, else the response
generateComparison(vendors, answer) ==
    IF answer.kind = "throws" THEN Null
    ELSE LET winnerIdx == Min(answer.winnerIndex, 2 * (Len(vendors) - 1))
         IN IF winnerIdx < 0 \/ winnerIdx % 2 = 1
            THEN Null   \* vendors[winnerIdx] is undefined: TypeError
            ELSE LET winner == vendors[winnerIdx \div 2 + 1]
                 IN Some([recommendation |->
                             [winner_vendor_id |-> winner.vendorId,
                              winner_vendor_name |-> winner.vendorName,
                              confidence |-> answer.confidence,
                              summary |-> "llm"],
                          vendors |-> comparisonVendors(vendors)])

\* [...vendors].sort by overallRiskScore, ascending and stable
RECURSIVE sortByRisk(_)
sortByRisk(vendors) ==
    IF vendors = <<>> THEN <<>>
    ELSE LET least == CHOOSE i \in 1..Len(vendors) :
                        \A j \in 1..Len(vendors) :
                            \/ vendors[i].riskScores.overallRiskScore
                                 < vendors[j].riskScores.overallRiskScore
                            \/ /\ vendors[i].riskScores.overallRiskScore
                                    = vendors[j].riskScores.overallRiskScore
                               /\ i <= j
             rest == [k \in 1..(Len(vendors) - 1) |->
                        IF k < least THEN vendors[k] ELSE vendors[k + 1]]
         IN <<vendors[least]>> \o sortByRisk(rest)

\* a variant that recommends the vendor asked for first
buildFallbackComparison_FirstAsked(vendors) ==
    [recommendation |->
        [winner_vendor_id |-> vendors[1].vendorId,
         winner_vendor_name |-> vendors[1].vendorName,
         confidence |-> "Moderate",
         summary |-> "fallback"],
     vendors |-> comparisonVendors(vendors)]

\* a variant that sorts the vendors array itself instead of a copy
buildFallbackComparison_SortsInPlace(vendors) ==
    LET sorted == sortByRisk(vendors)
    IN [recommendation |->
            [winner_vendor_id |-> sorted[1].vendorId,
             winner_vendor_name |-> sorted[1].vendorName,
             confidence |-> "Moderate",
             summary |-> "fallback"],
        vendors |-> comparisonVendors(sorted)]

buildFallbackComparison(vendors) ==
    LET sorted == sortByRisk(vendors)
        winner == sorted[1]
        n == Len(vendors)
        total == SeqSum([i \in 1..n |-> vendors[i].riskScores.overallRiskScore])
        avgRisk == (2 * total + n) \div (2 * n)
    IN [recommendation |->
            [winner_vendor_id |-> winner.vendorId,
             winner_vendor_name |-> winner.vendorName,
             confidence |-> IF winner.riskScores.overallRiskScore < avgRisk - 10
                            THEN "High" ELSE "Moderate",
             summary |-> "fallback"],
        vendors |-> comparisonVendors(vendors)]

\* a variant that reports every requested id once one of them has no result
missingIds_AllOnceOneIsMissing(vendorIds, results) ==
    IF \E i \in 1..Len(vendorIds) : IsNull(results[i]) THEN vendorIds ELSE <<>>

\* vendorIds.filter((_, i) => results[i] === null)
missingIds(vendorIds, results) ==
    LET tagged == [i \in 1..Len(vendorIds) |->
                     [id |-> vendorIds[i], gone |-> IsNull(results[i])]]
        kept == SelectSeq(tagged, LAMBDA x : x.gone)
    IN [i \in 1..Len(kept) |-> kept[i].id]

CompareResponse(idsParam, answer) ==
    IF IsFalsyParam(idsParam)
    THEN errorResponse("compare", "INVALID_IDS", Some([kind |-> "required", ids |-> <<>>]), 400)
    ELSE LET vendorIds == splitTrimFilter(Val(idsParam))
             results == getMultipleVendorResults(vendorIds)
             missing == missingIds(vendorIds, results)
             validResults == [i \in 1..Len(results) |-> Val(results[i])]
         IN IF Len(vendorIds) < 2
            THEN errorResponse("compare", "INVALID_IDS",
                               Some([kind |-> "at_least_2", ids |-> <<>>]), 400)
            ELSE IF Len(missing) > 0
            THEN errorResponse("compare", "INVALID_IDS",
                    Some([kind |-> "not_found_or_not_complete",
                          ids |-> missing]), 400)
            ELSE LET comparison == generateComparison(validResults, answer)
                 IN IF IsNull(comparison)
                    THEN jsonResponse("compare", buildFallbackComparison(validResults))
                    ELSE jsonResponse("compare", Val(comparison))

\* the reasoning service, when called, gives one of the answers
GETCompare(idsParam, answers) ==
    /\ UNCHANGED call
    /\ response' \in {Some(CompareResponse(idsParam, answer)) : answer \in answers}
    /\ UNCHANGED <<heap, store, run>>

(***************************************************************************)
(* The store specification: any interleaving of requests and pipeline      *)
(* steps, starting from the empty store.                                   *)
(***************************************************************************)
Init ==
    /\ heap = <<>>
    /\ store = [id \in Ids |-> 0]
    /\ run = <<>>
    /\ response = Null
    /\ call = Null

EvaluationAnswers == {Null} \cup {Some(sig) : sig \in SampleRiskSignals}

Next ==
    \/ \E body \in Bodies, vendorId \in Ids : POST(body, vendorId)
    \/ \E o \in Objs, answer \in FMPAnswers : ResolveFMPReturns(o, answer)
    \/ \E o \in Objs, answer \in LLMResolveAnswers : ResolveLLMReturns(o, answer)
    \/ \E o \in Objs : AggregateReturns(o, SampleOkSets)
    \/ \E o \in Objs, signals \in EvaluationAnswers, jitter \in SampleJitters :
          EvaluateReturns(o, signals, jitter)
    \/ \E o \in Objs, ok \in BOOLEAN : DescriptionsReturn(o, ok)
    \/ \E o \in Objs, ok \in BOOLEAN : DependenciesReturn(o, ok)
    \/ \E vendorId \in RequestIds : GETStatus(vendorId)
    \/ \E vendorId \in RequestIds : GETDependencies(vendorId)
    \/ \E vendorId \in RequestIds : GETOverview(vendorId)
    \/ \E vendorId \in RequestIds : GETRiskBreakdown(vendorId)
    \/ \E idsParam \in IdsParams : GETCompare(idsParam, ComparisonAnswers)

Spec == Init /\ [][Next]_vars

(***************************************************************************)
(* The run specification: one pipeline run from the state triggerAnalysis  *)
(* leaves, under every combination of provider fetch failures.             *)
(***************************************************************************)
RunJitters == { <<-8, 7, -1, 0>>, <<7, -8, 0, 1>> }

InitRun ==
    \E vendorId \in Ids :
        /\ heap = <<[vendorId |-> vendorId, vendorName |-> MaxNameLen,
                     status |-> "processing", error |-> Null, result |-> Null,
                     createdAt |-> Timestamp, completedAt |-> Null]>>
        /\ store = [id \in Ids |-> IF id = vendorId THEN 1 ELSE 0]
        /\ run = <<NewRun(vendorId, MaxNameLen)>>
        /\ response = Null
        /\ call = Null

NextRun ==
    \/ \E o \in Objs, answer \in FMPAnswers : ResolveFMPReturns(o, answer)
    \/ \E o \in Objs, answer \in LLMResolveAnswers : ResolveLLMReturns(o, answer)
    \/ \E o \in Objs : AggregateReturns(o, SUBSET Fetchers)
    \/ \E o \in Objs, signals \in EvaluationAnswers, jitter \in RunJitters :
          EvaluateReturns(o, signals, jitter)
    \/ \E o \in Objs, ok \in BOOLEAN : DescriptionsReturn(o, ok)
    \/ \E o \in Objs, ok \in BOOLEAN : DependenciesReturn(o, ok)

SpecRun == InitRun /\ [][NextRun]_vars

(***************************************************************************)
(* The fair run specification: one pipeline run in which every external    *)
(* call the run is suspended on eventually settles, by returning or by     *)
(* throwing.  A run that has not returned is suspended on one such call,   *)
(* and every step of NextRun is the settling of one, so this is weak       *)
(* fairness of NextRun: a run that stays suspended eventually takes a      *)
(* step.                                                                   *)
(***************************************************************************)
SpecRunFair ==
    /\ InitRun
    /\ [][NextRun]_vars
    /\ (<>[](\E o \in Allocated : run[o].pc # "done") => []<><<TRUE>>_vars)

(***************************************************************************)
(* Properties of the vendor store.                                         *)
(***************************************************************************)
Terminal == {"complete", "failed"}

StoreKeys == {id \in Ids : store[id] # 0}

\* C2: each trigger call inserts its entry under an id no entry already has:
\* the number of entries of the store grows by exactly one, and every id that
\* had an entry keeps that same entry, unmodified.
C2_TriggerInsertsUnderFreshId ==
    [][Len(heap') = Len(heap) + 1 =>
          /\ Cardinality({id \in Ids : store'[id] # 0}) = Cardinality(StoreKeys) + 1
          /\ \A id \in StoreKeys :
                /\ store'[id] = store[id]
                /\ heap'[store'[id]] = heap[store[id]]]_vars

\* C1: once the entry of an id is complete or failed, every later read of it
\* (status poll, get, getResult, tab request) sees the same status, result
\* and error: no step changes what the reads of that id return.
C1_TerminalEntryIsFinal ==
    [][\A id \in StoreKeys :
          heap[store[id]].status \in Terminal =>
             /\ store'[id] # 0
             /\ heap'[store'[id]].status = heap[store[id]].status
             /\ heap'[store'[id]].result = heap[store[id]].result
             /\ heap'[store'[id]].error = heap[store[id]].error]_vars

\* C3: at the moment trigger returns the new entry exists with status
\* processing, and every status poll of the returned id made before that
\* run's terminal transition answers processing.
C3_PollBeforeTerminalIsProcessing ==
    \A o \in Allocated :
        run[o].pc # "done" =>
            /\ StatusResponse(run[o].vendorId).status = 200
            /\ Val(StatusResponse(run[o].vendorId).body).status = "processing"

\* the tab response kept in a stored result
StoredTab(tab, result) ==
    CASE tab = "overview" -> result.overview
      [] tab = "dependencies" -> result.dependencies
      [] tab = "risk-breakdown" -> result.riskBreakdown

\* C4: for every id and every tab, the tab request answers 404
\* VENDOR_NOT_FOUND exactly when the store has no entry for the id, 202
\* STILL_PROCESSING exactly when the entry is processing, 422 ANALYSIS_FAILED
\* exactly when it is failed, and 200 with the stored tab response exactly
\* when it is complete.
C4_TabAnswerFollowsEntryStatus ==
    \A tab \in Tabs, vendorId \in RequestIds :
        LET r == TabResponse(tab, vendorId)
            vendor == getVendor(vendorId)
            has(status) == ~IsNull(vendor) /\ Val(vendor).status = status
        IN /\ r.status \in {404, 202, 422, 200}
           /\ (r.status = 404) <=> IsNull(vendor)
           /\ (r.status = 202) <=> has("processing")
           /\ (r.status = 422) <=> has("failed")
           /\ (r.status = 200) <=> has("complete")
           /\ r.status = 404 => r.code = "VENDOR_NOT_FOUND"
           /\ r.status = 202 => r.code = "STILL_PROCESSING"
           /\ r.status = 422 => r.code = "ANALYSIS_FAILED"
           /\ r.status = 200 =>
                r.body = Some(StoredTab(tab, Val(Val(vendor).result)))

\* a tab request has just been answered 200 from a stored result
C4_Witness ==
    /\ ~IsNull(response)
    /\ Val(response).route = "risk-breakdown"
    /\ Val(response).status = 200

\* C8: an entry is written only when trigger creates it and, once more, by the
\* terminal transition of its own pipeline run, which sets status, result or
\* error, and completedAt in one step; no other step (status poll, tab
\* request, compare request, trigger, step of another run) changes it.
C8_EntryWrittenOnlyByItsOwnTerminalStep ==
    [][\A o \in Allocated :
          heap'[o] # heap[o] =>
             /\ heap[o].status = "processing"
             /\ run[o].pc # "done"
             /\ run'[o].pc = "done"
             /\ heap'[o].status \in Terminal
             /\ ~IsNull(heap'[o].completedAt)
             /\ heap'[o].status = "complete" =>
                    ~IsNull(heap'[o].result) /\ IsNull(heap'[o].error)
             /\ heap'[o].status = "failed" =>
                    IsNull(heap'[o].result) /\ ~IsNull(heap'[o].error)
             /\ heap'[o].vendorId = heap[o].vendorId
             /\ heap'[o].vendorName = heap[o].vendorName
             /\ heap'[o].createdAt = heap[o].createdAt
             /\ Len(heap') = Len(heap)
             /\ \A q \in Allocated \ {o} : heap'[q] = heap[q] /\ run'[q] = run[q]]_vars

\* one entry has made its terminal transition while another one, under a
\* different id, is still processing, and a compare request was just answered
C8_Witness ==
    /\ \E o, q \in Allocated :
          /\ heap[o].status = "complete"
          /\ heap[q].status = "processing"
          /\ heap[o].vendorId # heap[q].vendorId
    /\ ~IsNull(response)
    /\ Val(response).route = "compare"

\* the ids a compare request asks for
RequestedIds(idsParam) ==
    IF IsNull(idsParam) THEN <<>> ELSE splitTrimFilter(Val(idsParam))

NotComplete(id) ==
    IsNull(getVendor(id)) \/ Val(getVendor(id)).status # "complete"

\* C9: compare answers 400 INVALID_IDS when the ids list has fewer than two
\* valid ids; with two or more ids of which some is missing from the store or
\* not complete it answers 400 INVALID_IDS naming exactly those ids; in both
\* cases it builds no comparison.
C9_CompareRejectsInvalidIds ==
    \A idsParam \in IdsParams, answer \in ComparisonAnswers :
        LET ids == RequestedIds(idsParam)
            bad == SelectSeq(ids, NotComplete)
            r == CompareResponse(idsParam, answer)
        IN /\ Len(ids) < 2 =>
                r.status = 400 /\ r.code = "INVALID_IDS" /\ IsNull(r.body)
           /\ (Len(ids) >= 2 /\ bad # <<>>) =>
                /\ r.status = 400
                /\ r.code = "INVALID_IDS"
                /\ Val(r.message).ids = bad
                /\ IsNull(r.body)

\* a compare request for two ids has just been refused, naming one of them
C9_Witness ==
    /\ ~IsNull(response)
    /\ Val(response).route = "compare"
    /\ Val(response).status = 400
    /\ Len(Val(Val(response).message).ids) = 1
    /\ \E id \in StoreKeys : heap[store[id]].status = "complete"

\* C10: every 200 compare response has a vendors array with one element per
\* requested id, in the order of the ids parameter, whether the reasoning
\* service or the fallback produced it.
C10_CompareVendorsMirrorIds ==
    \A idsParam \in IdsParams, answer \in ComparisonAnswers :
        LET ids == RequestedIds(idsParam)
            r == CompareResponse(idsParam, answer)
        IN r.status = 200 =>
              /\ Len(Val(r.body).vendors) = Len(ids)
              /\ \A i \in 1..Len(ids) : Val(r.body).vendors[i].vendor_id = ids[i]

\* the fallback has just compared two vendors, the riskier one asked first
C10_Witness ==
    /\ ~IsNull(response)
    /\ Val(response).route = "compare"
    /\ Val(response).status = 200
    /\ Val(Val(response).body).recommendation.summary = "fallback"
    /\ Val(Val(response).body).vendors[1].overall_risk_score
         > Val(Val(response).body).vendors[2].overall_risk_score

(***************************************************************************)
(* Properties of one pipeline run.                                         *)
(***************************************************************************)
\* C5: if the direct provider lookup and the reasoning-based lookup both fail
\* to resolve the name, the run ends with the entry failed, a non-null error
\* and a null result, and none of steps 2 to 9 is entered.
C5_UnresolvedNameFailsTheRun ==
    [][\A o \in Allocated, answer \in {"low", "throws"} :
          ResolveLLMReturns(o, answer) =>
             /\ heap'[o].status = "failed"
             /\ ~IsNull(heap'[o].error)
             /\ IsNull(heap'[o].result)
             /\ run'[o].pc = "done"
             /\ run'[o].calls = {}]_vars

\* a run has ended without a resolved name
C5_Witness ==
    \E o \in Allocated :
        /\ run[o].pc = "done"
        /\ run[o].calls = {}
        /\ heap[o].status = "failed"

\* C6: once name resolution has succeeded, no failure of a provider fetch or
\* of the evaluation, narrative or dependency pass makes the entry failed:
\* the run ends with the entry complete and a non-null result.
C6_ResolvedRunCompletes ==
    \A o \in Allocated :
        "aggregateCompanyData" \in run[o].calls =>
            /\ heap[o].status # "failed"
            /\ run[o].pc = "done" =>
                  /\ heap[o].status = "complete"
                  /\ ~IsNull(heap[o].result)
                  /\ IsNull(heap[o].error)

\* a run has completed although every provider fetch and the evaluation failed
C6_Witness ==
    \E o \in Allocated :
        /\ run[o].pc = "done"
        /\ heap[o].status = "complete"
        /\ ~Val(heap[o].result).aggregated.profile.success
        /\ ~Val(heap[o].result).aggregated.news.success
        /\ ~Val(heap[o].result).aggregated.secFilings.success
        /\ "buildFallbackDependencies" \in run[o].calls

\* C7: if the evaluation call fails, the rest of the run works with
\* evaluated = null: the partitioned variables hold no evaluation-derived
\* variable, the scores are those of a null evaluation, the narrative and
\* dependency steps use their fallback generators without calling the
\* reasoning service, and the entry ends complete with error null.
C7_FailedEvaluationDegrades ==
    [][\A o \in Allocated, jitter \in RunJitters :
          EvaluateReturns(o, Null, jitter) =>
             /\ heap'[o].status = "complete"
             /\ IsNull(heap'[o].error)
             /\ ~IsNull(heap'[o].result)
             /\ LET result == Val(heap'[o].result)
                IN /\ result.evaluated.riskSignals = <<>>
                   /\ result.evaluated.evaluationSummary = "data-only"
                   /\ \A i \in 1..Len(Categories) :
                        \A k \in 1..Len(result.partitioned[Categories[i]]) :
                            result.partitioned[Categories[i]][k].name
                                \notin EvaluationDerivedNames
                   /\ result.riskScores
                        = computeRiskScores(result.partitioned, Null, jitter)
                   /\ result.dependencies.origin = "fallback"
                   /\ \A i \in 1..Len(result.riskBreakdown.categories) :
                        result.riskBreakdown.categories[i].description = "fallback"
             /\ run'[o].pc = "done"
             /\ "generateCategoryDescriptions" \notin run'[o].calls
             /\ "generateDependencyTree" \notin run'[o].calls
             /\ "buildFallbackCategoryDescriptions" \in run'[o].calls
             /\ "buildFallbackDependencies" \in run'[o].calls]_vars

\* a run whose evaluation failed has ended
C7_Witness ==
    \E o \in Allocated :
        /\ run[o].pc = "done"
        /\ heap[o].status = "complete"
        /\ Val(heap[o].result).evaluated.evaluationSummary = "data-only"
        /\ Val(heap[o].result).aggregated.profile.success

(***************************************************************************)
(* Inputs of aggregateCompanyData: every combination of answering and     *)
(* non-2xx providers, and every combination in which at most MaxFailing    *)
(* providers deviate from success in any of the ways of ProviderOutcomes.  *)
(***************************************************************************)
MaxFailing == 2

OutcomeVectors(n) ==
    LET RECURSIVE upTo(_)
        upTo(k) ==
            IF k = 0 THEN {[f \in Fetchers |-> "success"]}
            ELSE LET less == upTo(k - 1)
                 IN less \cup {[v EXCEPT ![f] = o] :
                                  v \in less, f \in Fetchers, o \in ProviderOutcomes}
    IN upTo(n)

AggregateInputs ==
    {[f \in Fetchers |-> IF f \in okSet THEN "success" ELSE "non2xx"] :
        okSet \in SUBSET Fetchers}
    \cup OutcomeVectors(MaxFailing)

\* no store, no run: only the library call
NoStore ==
    /\ heap = <<>>
    /\ store = [id \in Ids |-> 0]
    /\ run = <<>>
    /\ response = Null

Called(fn, args) == Some([fn |-> fn, args |-> args, returned |-> Null])
Pending(fn) == ~IsNull(call) /\ Val(call).fn = fn /\ IsNull(Val(call).returned)
HasReturned(fn) == ~IsNull(call) /\ Val(call).fn = fn /\ ~IsNull(Val(call).returned)
Return(value) == Some([Val(call) EXCEPT !.returned = Some(value)])
CallArgs == Val(call).args
CallResult == Val(Val(call).returned)

(***************************************************************************)
(* Inputs of the scorer.  An evaluation is any list of at most MaxSignals  *)
(* risk signals (category is a free string in RiskSignalSchema: "other"    *)
(* stands for one no filter names), or seven critical supply-chain         *)
(* signals, the shortest list that drives a category to risk 100.          *)
(***************************************************************************)
MaxSignals == 2

Signals ==
    [category : {"financial", "macro", "supply_chain", "regulatory",
                 "litigation", "environmental", "safety", "other"},
     severity : {"low", "medium", "high", "critical"}]

ScoreEvaluations ==
    {Null} \cup
    {Some(Evaluation(ResolvedCompany, signals)) :
        signals \in SeqsUpTo(Signals, MaxSignals) \cup
                    {[i \in 1..7 |-> [category |-> "supply_chain",
                                      severity |-> "critical"]]}}

\* values of a benchmark variable, in hundredths, on both sides of each
\* threshold of its riskFn
BenchmarkSamples(variableName) ==
    CASE variableName = "altman_z_score" -> {181, 182, 299, 300, 350}
      [] variableName = "piotroski_score" -> {0, 400, 900, 1000}
      [] variableName = "debt_to_equity" -> {49, 50, 100, 250, 300}
      [] variableName = "current_ratio" -> {100, 101, 151, 201}
      [] variableName = "quick_ratio" -> {50, 51, 101, 151}
      [] variableName = "annualized_volatility" -> {0, 20, 35, 50}
      [] variableName = "return_on_equity" -> {0, 1, 11, 21}
      [] variableName = "return_on_assets" -> {0, 1, 6, 11}
      [] variableName = "price_change_pct" -> {-1000, -200, 0, 499}
      [] variableName = "supply_chain_risk_severity_score" -> {0, 100, 400, 500, 1200}
      [] variableName = "supply_chain_risk_signal_count" -> {0, 100, 700}
      [] variableName = "global_supply_chain_pressure_index" -> {-51, -50, 49, 150}
      [] variableName = "ism_supplier_deliveries_index" -> {4999, 5000, 5500, 6000}
      [] variableName = "geographic_concentration_ratio" -> {29, 30, 50, 100}
      [] variableName = "facility_state_count" -> {100, 200, 300, 600, 1100}
      [] variableName = "environmental_violation_count" -> {0, 100, 300, 1000}
      [] variableName = "environmental_total_penalties" ->
             {0, 4999999, 5000000, 500000000}
      [] OTHER -> {0, 100, 600}

\* number of benchmark variables a category's list holds at most
MaxPresent == 2

\* the lists of at most n benchmark variables of a category, in benchmark order
RECURSIVE BenchmarkVariables(_, _)
BenchmarkVariables(cat, n) ==
    IF n = 0 THEN {<<>>}
    ELSE LET less == BenchmarkVariables(cat, n - 1)
             bs == BENCHMARKS_BY_CATEGORY(cat)
             index(name) == CHOOSE i \in 1..Len(bs) : bs[i] = name
             after(l) == IF l = <<>> THEN 1..Len(bs)
                         ELSE (index(l[Len(l)].name) + 1)..Len(bs)
             var(i, v) == [name |-> bs[i], value |-> v, category |-> cat,
                           industry |-> "Technology"]
         IN less \cup UNION {UNION {{Append(l, var(i, v)) :
                                         v \in BenchmarkSamples(bs[i])} :
                                    i \in after(l)} :
                             l \in less}

\* the same lists, also behind a variable no benchmark rule names
VariableLists(cat) ==
    LET unscored == [name |-> "employee_count", value |-> 50000000,
                     category |-> cat, industry |-> "Technology"]
        lists == BenchmarkVariables(cat, MaxPresent)
    IN lists \cup {<<unscored>> \o l : l \in lists}

(***************************************************************************)
(* generateRiskTrend (vendor-analyzer.ts).  A date is the year and the     *)
(* month index (0..11) its Date object reports.  A month key `YYYY-MM` is  *)
(* the pair <<year, month index + 1>>; the default sort of the key strings *)
(* orders them as KeyBefore does, years having four digits.  The draw of   *)
(* Math.random for the padding point monthsBack months back is             *)
(* jitter[monthsBack], already rounded.  Prices are whole numbers, so the  *)
(* mean absolute return of a month is an exact fraction.                   *)
(***************************************************************************)
\* new Date(year, monthIndex, 1): a month index outside 0..11 carries into the year
NewDate(year, monthIndex) ==
    LET months == year * 12 + monthIndex
    IN [year |-> months \div 12, month |-> months % 12]

\* `${d.getFullYear()}-${String(d.getMonth() + 1).padStart(2, "0")}`
MonthKey(d) == <<d.year, d.month + 1>>

KeyBefore(a, b) == a[1] < b[1] \/ (a[1] = b[1] /\ a[2] < b[2])

padTrend_NoPadding(trend, currentRisk, now, jitter) == trend

\* the while loop: each padding point is put in front of the points so far
RECURSIVE padTrend(_, _, _, _)
padTrend(trend, currentRisk, now, jitter) ==
    IF Len(trend) >= 12 THEN trend
    ELSE LET monthsBack == 12 - Len(trend)
             d == NewDate(now.year, now.month - monthsBack)
             point == [month |-> MonthKey(d),
                       risk_score |-> clamp(currentRisk + jitter[monthsBack])]
         IN padTrend(<<point>> \o trend, currentRisk, now, jitter)

generateRiskTrend(aggregated, currentRisk, now, jitter) ==
    LET prices == aggregated.historicalPrices.data
        \* Math.round(p / q) for q > 0
        round(p, q) == (2 * p + q) \div (2 * q)
        \* slice(-12)
        last12(l) == IF Len(l) <= 12 THEN l ELSE SubSeq(l, Len(l) - 11, Len(l))
        RECURSIVE sort(_)
        sort(keys) ==
            IF keys = {} THEN <<>>
            ELSE LET first == CHOOSE k \in keys :
                                  \A other \in keys \ {k} : KeyBefore(k, other)
                 IN <<first>> \o sort(keys \ {first})
        RECURSIVE product(_)
        product(S) ==
            IF S = {} THEN 1
            ELSE LET x == CHOOSE y \in S : TRUE IN x * product(S \ {x})
        riskOf(closePrices) ==
            IF Len(closePrices) < 2 THEN currentRisk
            ELSE LET returns == {i \in 2..Len(closePrices) : closePrices[i - 1] > 0}
                     n == Cardinality(returns)
                     \* every return is a multiple of 1 / den
                     den == product({closePrices[i - 1] : i \in returns})
                     total ==
                         SeqSum([i \in 1..Len(closePrices) |->
                                   IF i \in returns
                                   THEN Abs(closePrices[i] - closePrices[i - 1])
                                        * (den \div closePrices[i - 1])
                                   ELSE 0])
                     volRisk ==
                         IF n = 0 THEN Min(100, round(7 * currentRisk, 10))
                         ELSE Min(100, round(7 * currentRisk * den * n + 8000 * total,
                                             10 * den * n))
                 IN clamp(volRisk)
        monthly(list) ==
            LET key(i) == MonthKey(list[i].date)
                sortedMonths == last12(sort({key(i) : i \in 1..Len(list)}))
                closesOf(month) ==
                    LET of == SelectSeq([i \in 1..Len(list) |->
                                            [key |-> key(i), close |-> list[i].close]],
                                        LAMBDA e : e.key = month)
                    IN [i \in 1..Len(of) |-> of[i].close]
            IN [m \in 1..Len(sortedMonths) |->
                   [month |-> sortedMonths[m],
                    risk_score |-> riskOf(closesOf(sortedMonths[m]))]]
        trend == IF ~IsNull(prices) /\ Len(Val(prices)) > 20
                 THEN monthly(Val(prices)) ELSE <<>>
    IN last12(padTrend(trend, currentRisk, now, jitter))

(***************************************************************************)
(* Inputs of generateRiskTrend.  The months with prices are a run of       *)
(* months ending at most MaxHistoryMonths - 1 months before the current    *)
(* one, possibly with one month missing inside; each has 1, 3 or 21        *)
(* prices (so lists of at most 20 and of more than 20 prices both occur), *)
(* the oldest month optionally a single one.                               *)
(***************************************************************************)
MaxHistoryMonths == 14

TrendCalls ==
    LET nows == {NewDate(2026, 0), NewDate(2026, 10)}
        monthSets ==
            {{}} \cup
            UNION {{(lo..hi) \ gap : gap \in {{}} \cup {{g} : g \in (lo + 1)..(hi - 1)}} :
                   lo \in 0..(MaxHistoryMonths - 1), hi \in 0..(MaxHistoryMonths - 1)}
        draws ==
            {[currentRisk |-> 0, jitter |-> [b \in 1..12 |-> -5],
              closes |-> <<0, 0, 5>>, newestFirst |-> FALSE],
             [currentRisk |-> 100, jitter |-> [b \in 1..12 |-> 5],
              closes |-> <<5, 0, 4>>, newestFirst |-> TRUE],
             [currentRisk |-> 43, jitter |-> [b \in 1..12 |-> ((b * 7) % 11) - 5],
              closes |-> <<100, 101, 100>>, newestFirst |-> FALSE]}
        \* the prices of the months `back` months before now, oldest month first
        RECURSIVE pricesOf(_, _, _, _, _)
        pricesOf(now, back, perMonth, oldestSingle, closes) ==
            IF back = {} THEN <<>>
            ELSE LET oldest == CHOOSE b \in back : \A c \in back : c <= b
                     count == IF oldestSingle THEN 1 ELSE perMonth
                     date == NewDate(now.year, now.month - oldest)
                 IN [i \in 1..count |->
                        [date |-> date, close |-> closes[((i - 1) % Len(closes)) + 1]]]
                    \o pricesOf(now, back \ {oldest}, perMonth, FALSE, closes)
        reverse(l) == [i \in 1..Len(l) |-> l[Len(l) + 1 - i]]
        source == SourceName("historicalPrices")
        answered ==
            {[now |-> now, currentRisk |-> d.currentRisk, jitter |-> d.jitter,
              aggregated |->
                 [historicalPrices |->
                     sourceSuccess(source,
                         Some(LET l == pricesOf(now, back, perMonth, oldestSingle, d.closes)
                              IN IF d.newestFirst THEN reverse(l) ELSE l))]] :
                now \in nows, back \in monthSets, perMonth \in {1, 3, 21},
                oldestSingle \in BOOLEAN, d \in draws}
        failed ==
            {[now |-> now, currentRisk |-> d.currentRisk, jitter |-> d.jitter,
              aggregated |->
                 [historicalPrices |-> sourceError(source, "provider request failed")]] :
                now \in nows, d \in draws}
    IN {Called("generateRiskTrend", args) : args \in answered \cup failed}

(***************************************************************************)
(* The library specification: one call of one function of the pipeline's   *)
(* libraries, on its own, from each of its inputs.                         *)
(***************************************************************************)
AggregateCalls ==
    {Called("aggregateCompanyData", outcomes) : outcomes \in AggregateInputs}

EvaluationRiskCalls ==
    {Called("computeEvaluationRisk", [evaluated |-> evaluated, category |-> cat]) :
        evaluated \in ScoreEvaluations, cat \in DOMAIN Categories}

\* evaluation risks handed to scoreCategory: the least computeEvaluationRisk
\* returns, its two defaults, and two more up to the greatest
ScoreCategoryCalls ==
    UNION {{Called("scoreCategory",
                   [variables |-> variables, category |-> cat,
                    evaluationRisk |-> evaluationRisk]) :
               variables \in VariableLists(Categories[cat]),
               evaluationRisk \in {13, 35, 40, 50, 100}} :
           cat \in DOMAIN Categories}

\* the scorer's input comes from the data of a run in which every provider,
\* none, or all but two answered, once the aggregation has returned;
\* randomJitter draws for the four categories are the extremes, none, and mixed
RiskScoresCalls ==
    {Called("computeRiskScores",
            [partitioned |-> partitionVariables(aggregated, evaluated),
             evaluated |-> evaluated, jitter |-> jitter]) :
        aggregated \in
            {a \in {aggregateCompanyData(ResolvedCompany, okSet) :
                        okSet \in {Fetchers, {},
                                   Fetchers \ {"macroIndicators", "financialHealth"}}} :
                ~IsRejected(a)},
        evaluated \in ScoreEvaluations,
        jitter \in {[i \in 1..4 |-> j] : j \in {-8, 0, 7}} \cup RunJitters}

(***************************************************************************)
(* Inputs of partitionVariables: the data of a run in which every provider *)
(* answered, with each of four numeric source fields and the penalty of    *)
(* each of at most MaxViolations violation records absent, not a number,   *)
(* zero, or a positive number.                                             *)
(***************************************************************************)
MaxViolations == 2

PartitionCalls ==
    LET values == {Null, NonFinite, Num(0), Num(150)}
        base == aggregateCompanyData(ResolvedCompany, Fetchers)
        payload(f) == Val(base[f].data)
        violationLists ==
            SeqsUpTo({[state |-> "PA", penaltyAmount |-> amount] : amount \in values},
                     MaxViolations)
        data(pe, altman, employees, observation, violations) ==
            [base EXCEPT
                !.stockQuote.data = Some([payload("stockQuote") EXCEPT !.pe = pe]),
                !.financialHealth.data =
                    Some([payload("financialHealth") EXCEPT !.altmanZScore = altman]),
                !.profile.data = Some([payload("profile") EXCEPT !.employees = employees]),
                !.macroIndicators.data =
                    Some(<<[seriesId |-> "GSCPI", observations |-> <<observation>>]>>),
                !.environmentalViolations.data = Some(violations)]
    IN {Called("partitionVariables",
               [aggregated |-> data(pe, altman, employees, observation, violations),
                evaluated |-> evaluated]) :
           pe \in values, altman \in values, employees \in values,
           observation \in values, violations \in violationLists,
           evaluated \in {Null, Some(Evaluation(ResolvedCompany, <<>>))}}

(***************************************************************************)
(* Inputs of mergeNewsResults: two results, as aggregateCompanyData passes *)
(* them, each a sourceError, a success without data, or a success with at  *)
(* most MaxArticles articles over two urls and two titles.                 *)
(***************************************************************************)
MaxArticles == 2

MergeNewsCalls ==
    LET articles == [url : {"u1", "u2"}, title : {"a", "b"}]
        resultsOf(source, message) ==
            {sourceError(source, message), sourceSuccess(source, Null)}
            \cup {sourceSuccess(source, Some(list)) :
                     list \in SeqsUpTo(articles, MaxArticles)}
    IN {Called("mergeNewsResults", <<first, second>>) :
           first \in resultsOf(SourceName("supplyChainNews"), "first error"),
           second \in resultsOf(SourceName("litigationNews"), "second error")}

InitLibrary ==
    /\ NoStore
    /\ \/ call \in AggregateCalls
       \/ call \in EvaluationRiskCalls
       \/ call \in ScoreCategoryCalls
       \/ call \in RiskScoresCalls
       \/ call \in TrendCalls
       \/ call \in PartitionCalls
       \/ call \in MergeNewsCalls

AggregateCompanyDataReturns ==
    /\ Pending("aggregateCompanyData")
    /\ call' = Return(aggregateOutcomes(ResolvedCompany, CallArgs))
    /\ UNCHANGED <<heap, store, run, response>>

ComputeEvaluationRiskReturns ==
    /\ Pending("computeEvaluationRisk")
    /\ call' = Return(computeEvaluationRisk(
                          CallArgs.evaluated,
                          CATEGORY_EVAL_FILTERS(Categories[CallArgs.category])))
    /\ UNCHANGED <<heap, store, run, response>>

ScoreCategoryReturns ==
    /\ Pending("scoreCategory")
    /\ call' = Return(scoreCategory(
                          CallArgs.variables,
                          BENCHMARKS_BY_CATEGORY(Categories[CallArgs.category]),
                          CallArgs.evaluationRisk))
    /\ UNCHANGED <<heap, store, run, response>>

ComputeRiskScoresReturns ==
    /\ Pending("computeRiskScores")
    /\ call' = Return(computeRiskScores(CallArgs.partitioned, CallArgs.evaluated,
                                        CallArgs.jitter))
    /\ UNCHANGED <<heap, store, run, response>>

GenerateRiskTrendReturns ==
    /\ Pending("generateRiskTrend")
    /\ call' = Return(generateRiskTrend(CallArgs.aggregated, CallArgs.currentRisk,
                                        CallArgs.now, CallArgs.jitter))
    /\ UNCHANGED <<heap, store, run, response>>

PartitionVariablesReturns ==
    /\ Pending("partitionVariables")
    /\ call' = Return(partitionVariables(CallArgs.aggregated, CallArgs.evaluated))
    /\ UNCHANGED <<heap, store, run, response>>

MergeNewsResultsReturns ==
    /\ Pending("mergeNewsResults")
    /\ call' = Return(mergeNewsResults(CallArgs))
    /\ UNCHANGED <<heap, store, run, response>>

NextLibrary ==
    \/ AggregateCompanyDataReturns
    \/ ComputeEvaluationRiskReturns
    \/ ScoreCategoryReturns
    \/ ComputeRiskScoresReturns
    \/ GenerateRiskTrendReturns
    \/ PartitionVariablesReturns
    \/ MergeNewsResultsReturns

SpecLibrary == InitLibrary /\ [][NextLibrary]_vars

(***************************************************************************)
(* evaluateBatch (evaluator.ts): the batch path of the research route.     *)
(* The call in progress keeps the results pushed so far and the indices of *)
(* the evaluateCompanyData calls that were started and have not settled.   *)
(* A step runs the code from one await to the next: the loop pushes the    *)
(* result it was waiting for and starts the next call, or returns.         *)
(***************************************************************************)
MaxBatch == 3

BatchCompanies == {ResolvedCompany, [ticker |-> "BOLT", name |-> "Bolt Inc"]}

\* the batch is the aggregated data of at most MaxBatch companies, in the order
\* of the request; a company may be named twice
BatchCalls ==
    {Some([fn |-> "evaluateBatch", args |-> aggregatedBatch, returned |-> Null,
           results |-> <<>>, inFlight |-> {}]) :
        aggregatedBatch \in
            {[i \in 1..Len(companies) |-> aggregateCompanyData(companies[i], Fetchers)] :
                companies \in SeqsUpTo(BatchCompanies, MaxBatch)}}

\* every call started as soon as the batch is entered
evaluateBatchLoop_StartsAll(c) ==
    IF Len(c.results) < Len(c.args)
    THEN [c EXCEPT !.inFlight = (1..Len(c.args)) \ (1..Len(c.results))]
    ELSE [c EXCEPT !.returned = Some(Value(c.results))]

\* the head of the for loop: the next element's evaluateCompanyData call is
\* started and awaited, or the loop is over and results is returned
evaluateBatchLoop(c) ==
    IF Len(c.results) < Len(c.args)
    THEN [c EXCEPT !.inFlight = @ \cup {Len(c.results) + 1}]
    ELSE [c EXCEPT !.returned = Some(Value(c.results))]

InitBatch ==
    /\ NoStore
    /\ \E c \in BatchCalls : call = Some(evaluateBatchLoop(Val(c)))

\* the awaited evaluateCompanyData call settles: its result is pushed and the
\* loop goes on, or it throws and evaluateBatch rejects with what it threw
BatchEvaluationSettles(i, answer) ==
    /\ Pending("evaluateBatch")
    /\ i \in Val(call).inFlight
    /\ call' =
          LET settled == [Val(call) EXCEPT !.inFlight = @ \ {i}]
          IN IF IsNull(answer)
             THEN Some([settled EXCEPT !.returned = Some(Thrown("evaluation failed"))])
             ELSE Some(evaluateBatchLoop(
                      [settled EXCEPT !.results =
                          Append(@, Evaluation(CallArgs[i].company, Val(answer)))]))
    /\ UNCHANGED <<heap, store, run, response>>

NextBatch ==
    \E i \in 1..MaxBatch, answer \in EvaluationAnswers \cup {Some(<<>>)} :
        BatchEvaluationSettles(i, answer)

SpecBatch == InitBatch /\ [][NextBatch]_vars

(***************************************************************************)
(* Properties of the aggregation.                                          *)
(***************************************************************************)
NewsFetchers == {"supplyChainNews", "litigationNews"}
\* the providers whose result is a field of AggregatedCompanyData as it is
FieldFetchers == Fetchers \ NewsFetchers
\* the DataSourceResult fields of AggregatedCompanyData
SourceFields == FieldFetchers \cup {"news"}

IsSourceResult(r) ==
    /\ DOMAIN r = {"source", "success", "data", "error", "fetchedAt"}
    /\ r.success \in BOOLEAN

Urls(articles) == {articles[i].url : i \in 1..Len(articles)}

\* C11: for every combination of provider outcomes aggregateCompanyData returns
\* normally, its record holds a source result in every provider field, and a
\* provider that answered has its payload recorded whatever the others did.
C11_AggregateReturnsEveryField ==
    HasReturned("aggregateCompanyData") =>
        /\ ~IsRejected(CallResult)
        /\ \A field \in SourceFields : IsSourceResult(CallResult[field])
        /\ \A f \in FieldFetchers :
              CallArgs[f] = "success" =>
                  /\ CallResult[f].success
                  /\ CallResult[f].data = Some(SamplePayload(f))
        /\ \A f \in NewsFetchers :
              CallArgs[f] = "success" =>
                  /\ CallResult.news.success
                  /\ Urls(SamplePayload(f)) \subseteq Urls(Val(CallResult.news.data))

\* two providers fail in different ways, a third answered and is recorded
C11_Witness ==
    /\ HasReturned("aggregateCompanyData")
    /\ CallArgs["profile"] = "throws"
    /\ CallArgs["oshaInspections"] = "invalid"
    /\ CallArgs["secFilings"] = "success"
    /\ ~CallResult.profile.success
    /\ CallResult.secFilings.success

\* C12: an entry of the record has success false and an error string exactly
\* when its provider's fetch failed, and success true otherwise; with k
\* providers answering non-2xx and the others succeeding, exactly k entries
\* have success false.
C12_FailureFlaggedExactlyWhenFetchFailed ==
    HasReturned("aggregateCompanyData") =>
        /\ \A f \in FieldFetchers :
              /\ (~CallResult[f].success /\ ~IsNull(CallResult[f].error))
                    <=> CallArgs[f] # "success"
              /\ CallResult[f].success <=> CallArgs[f] = "success"
        /\ (\A f \in Fetchers : CallArgs[f] \in {"success", "non2xx"}) =>
              Cardinality({f \in FieldFetchers : ~CallResult[f].success})
                  = Cardinality({f \in FieldFetchers : CallArgs[f] = "non2xx"})

\* C13: every source result of the record has success true if and only if its
\* data is not null, if and only if its error is null.
C13_SuccessIffDataIffNoError ==
    HasReturned("aggregateCompanyData") =>
        \A field \in SourceFields :
            /\ CallResult[field].success <=> ~IsNull(CallResult[field].data)
            /\ CallResult[field].success <=> IsNull(CallResult[field].error)

(***************************************************************************)
(* Properties of the risk scorer.  Math.round is taken in exact            *)
(* arithmetic: r is the rounding of p / q when (2r - 1) q <= 2p < (2r + 1) q. *)
(***************************************************************************)
Rounds(r, p, q) == (2 * r - 1) * q <= 2 * p /\ 2 * p < (2 * r + 1) * q

\* every score field of a RiskScoreResult
ScoreFields(r) ==
    {r.overallRiskScore, r.overallResilienceScore}
    \cup {r.categoryScores[i].riskScore : i \in 1..Len(r.categoryScores)}
    \cup {r.categoryScores[i].resilienceScore : i \in 1..Len(r.categoryScores)}
    \cup {r.resilienceFactors[i].score : i \in 1..Len(r.resilienceFactors)}

\* C14: for every partitioner output and every evaluation or null, every score
\* field of the result (overall risk and resilience, each category's risk and
\* resilience score, each resilience factor score) is an integer in 0..100.
C14_ScoresWithinZeroAndHundred ==
    HasReturned("computeRiskScores") =>
        /\ Len(CallResult.categoryScores) = 4
        /\ Len(CallResult.resilienceFactors) = 3
        /\ \A score \in ScoreFields(CallResult) : score \in 0..100

\* a category at risk 100 whose resilience the negative jitter would take below 0
C14_Witness ==
    /\ HasReturned("computeRiskScores")
    /\ CallArgs.jitter[2] < 0
    /\ CallResult.categoryScores[2].riskScore = 100
    /\ CallResult.categoryScores[2].resilienceScore = 0

C16_EvaluationRiskFromMatchingSignals ==
    HasReturned("computeEvaluationRisk") =>
        LET evaluated == CallArgs.evaluated
            filter == CATEGORY_EVAL_FILTERS(Categories[CallArgs.category])
            signals == Val(evaluated).riskSignals
            matching == {i \in 1..Len(signals) : signals[i].category \in filter}
            count(severity) ==
                Cardinality({i \in matching : signals[i].severity = severity})
            n == Cardinality(matching)
            total == 10 * count("low") + 30 * count("medium")
                     + 60 * count("high") + 90 * count("critical")
        IN IF IsNull(evaluated) THEN CallResult = 50
           ELSE IF n = 0 THEN CallResult = 35
           ELSE IF CallResult = 100 THEN 199 * n <= 2 * (total + 3 * n * n)
           ELSE Rounds(CallResult, total + 3 * n * n, n)

\* one low and one critical signal under the filter: (10 + 90) / 2 + 6 = 56
C16_Witness ==
    /\ HasReturned("computeEvaluationRisk")
    /\ Categories[CallArgs.category] = "financial"
    /\ ~IsNull(CallArgs.evaluated)
    /\ Len(Val(CallArgs.evaluated).riskSignals) = 2
    /\ Val(CallArgs.evaluated).riskSignals[1] =
          [category |-> "macro", severity |-> "low"]
    /\ Val(CallArgs.evaluated).riskSignals[2] =
          [category |-> "financial", severity |-> "critical"]
    /\ CallResult = 56

RiskBand(score) ==
    CASE score < 30 -> "Low"
      [] score >= 30 /\ score <= 54 -> "Moderate"
      [] score >= 55 /\ score <= 74 -> "High"
      [] score >= 75 -> "Critical"

ResilienceBand(score) ==
    CASE score < 30 -> "Poor"
      [] score >= 30 /\ score <= 54 -> "Moderate"
      [] score >= 55 /\ score <= 74 -> "Strong"
      [] score >= 75 -> "Excellent"

\* C17: every riskLevel and the resilienceRating of a result follow from the
\* score reported next to them and the cut points 30, 55 and 75 alone.
C17_LevelsFollowReportedScores ==
    HasReturned("computeRiskScores") =>
        /\ CallResult.overallRiskLevel = RiskBand(CallResult.overallRiskScore)
        /\ CallResult.resilienceRating = ResilienceBand(CallResult.overallResilienceScore)
        /\ \A i \in 1..Len(CallResult.categoryScores) :
              CallResult.categoryScores[i].riskLevel =
                  RiskBand(CallResult.categoryScores[i].riskScore)

\* a category whose score sits on a cut point, and is in the band above it
C17_Witness ==
    /\ HasReturned("computeRiskScores")
    /\ \E i \in 1..4 :
          /\ CallResult.categoryScores[i].riskScore = 30
          /\ CallResult.categoryScores[i].riskLevel = "Moderate"

\* the riskDistribution percentages of a result and their sum, in tenths
Percentages(r) == [i \in 1..Len(r.riskDistribution) |-> r.riskDistribution[i].percentage]
TotalRisk(r) == SeqSum([i \in 1..Len(r.categoryScores) |-> r.categoryScores[i].riskScore])

\* C18: the four riskDistribution percentages sum to 100 within 0.5 when the
\* category risk scores sum to more than 0, and each is 25 when they sum to 0.
C18_DistributionSumsToHundred ==
    HasReturned("computeRiskScores") =>
        /\ Len(CallResult.riskDistribution) = 4
        /\ TotalRisk(CallResult) > 0 =>
              Abs(SeqSum(Percentages(CallResult)) - 1000) <= 5
        /\ TotalRisk(CallResult) = 0 =>
              \A i \in 1..4 : Percentages(CallResult)[i] = 250

\* a result whose rounded percentages do not sum to 100 exactly
C18_Witness ==
    /\ HasReturned("computeRiskScores")
    /\ TotalRisk(CallResult) > 0
    /\ SeqSum(Percentages(CallResult)) # 1000

(***************************************************************************)
(* Properties of the 12-month risk trend.                                  *)
(***************************************************************************)
\* the months the price list of the call has prices for
PricedMonths ==
    LET prices == CallArgs.aggregated.historicalPrices.data
    IN IF IsNull(prices) THEN {}
       ELSE {MonthKey(Val(prices)[i].date) : i \in 1..Len(Val(prices))}

\* the trend is computed from the prices: there are more than 20 of them
FromHistory ==
    LET prices == CallArgs.aggregated.historicalPrices.data
    IN ~IsNull(prices) /\ Len(Val(prices)) > 20

\* C19: the risk trend has exactly 12 points for every input: no price
\* history, fewer than 12 months of it, exactly 12 months, or more.
C19_TrendHasTwelvePoints ==
    HasReturned("generateRiskTrend") => Len(CallResult) = 12

\* a trend computed from 13 months of prices, and cut to the last 12 of them
C19_Witness ==
    /\ HasReturned("generateRiskTrend")
    /\ FromHistory
    /\ Cardinality(PricedMonths) = 13
    /\ Len(CallResult) = 12
    /\ \A i \in 1..12 : CallResult[i].month \in PricedMonths

\* C20: the points of the risk trend are ordered by month, oldest first: no
\* point's month is later than the month of the point after it, padding
\* points included.
C20_TrendOrderedOldestFirst ==
    HasReturned("generateRiskTrend") =>
        \A i \in 1..(Len(CallResult) - 1) :
            ~KeyBefore(CallResult[i + 1].month, CallResult[i].month)

(***************************************************************************)
(* Properties of the partitioner.                                          *)
(***************************************************************************)
\* the variables of a PartitionedVariables record
VariablesOf(partitioned) ==
    UNION {{partitioned[cat][i] : i \in 1..Len(partitioned[cat])} :
              cat \in {"financial", "operational", "geographical", "ethical"}}

Missing(value) == IsNull(value) \/ ~isFinite(value)

\* the source field each of these variables is read from
SourceField(aggregated, name) ==
    CASE name = "pe_ratio" -> Val(aggregated.stockQuote.data).pe
      [] name = "altman_z_score" -> Val(aggregated.financialHealth.data).altmanZScore
      [] name = "employee_count" -> Val(aggregated.profile.data).employees
      [] name = "global_supply_chain_pressure_index" ->
             Val(aggregated.macroIndicators.data)[1].observations[1]

Penalties(aggregated) ==
    LET list == Val(aggregated.environmentalViolations.data)
    IN {list[i].penaltyAmount : i \in 1..Len(list)}

\* C21: every variable the partitioner emits has a finite value, and a source
\* field that is null, undefined or not finite contributes neither a variable
\* nor a zero: a variable is emitted only from fields that were observed.
C21_MissingFieldsAreOmitted ==
    HasReturned("partitionVariables") =>
        /\ \A v \in VariablesOf(CallResult) : v.value \in Int
        /\ \A name \in {"pe_ratio", "altman_z_score", "employee_count",
                        "global_supply_chain_pressure_index"} :
              Missing(SourceField(CallArgs.aggregated, name)) =>
                  \A v \in VariablesOf(CallResult) : v.name # name
        /\ \A v \in VariablesOf(CallResult) :
              v.name = "environmental_total_penalties" =>
                  \A amount \in Penalties(CallArgs.aggregated) : ~Missing(amount)

(***************************************************************************)
(* Properties of the trigger route.                                        *)
(***************************************************************************)
\* a JSON body whose vendor_name is missing, not a string, empty, or longer
\* than 200 characters
MalformedBody(body) ==
    \/ body.kind \in {"no_vendor_name", "not_a_string"}
    \/ body.kind = "string" /\ (body.len = 0 \/ body.len > 200)

\* C22: a trigger request with a malformed body is answered 422
\* ANALYSIS_FAILED in the same step, creates no store entry and starts no
\* pipeline run.
C22_MalformedTriggerIsRejected ==
    [][\A body \in Bodies, vendorId \in Ids :
          MalformedBody(body) /\ POST(body, vendorId) =>
             /\ response' = Some([route |-> "analyze", status |-> 422,
                                  code |-> "ANALYSIS_FAILED"])
             /\ heap' = heap
             /\ store' = store
             /\ run' = run]_vars

\* a trigger was rejected while the store already held an entry with a run
C22_Witness ==
    /\ response = Some([route |-> "analyze", status |-> 422,
                        code |-> "ANALYSIS_FAILED"])
    /\ Len(heap) > 0
    /\ Len(run) > 0

(***************************************************************************)
(* Properties of the news merge.                                           *)
(***************************************************************************)
\* the provider failed every query of both news fetchers
EveryNewsQueryFailed ==
    \A f \in NewsFetchers : ~searchNews(f, CallArgs[f]).success

\* the error of the first query that failed
FirstQueryError ==
    Val(searchNews("supplyChainNews", CallArgs["supplyChainNews"]).error)

\* C23: when every constituent news query failed, the merged news result has
\* success false and its error is the first error met among those queries.
C23_MergedNewsSurfacesFirstError ==
    HasReturned("aggregateCompanyData") /\ EveryNewsQueryFailed =>
        /\ ~CallResult.news.success
        /\ CallResult.news.error = Some(FirstQueryError)

\* the articles of the results the merge uses, in the order it meets them
SeenArticles ==
    LET usable(r) == r.success /\ ~IsNull(r.data)
        of(r) == IF usable(r) THEN Val(r.data) ELSE <<>>
    IN of(CallArgs[1]) \o of(CallArgs[2])

\* C24: the merged news holds each url at most once, with the article first
\* seen for it, and holds every url a successful news result returned.
C24_MergedNewsFirstSeenWins ==
    HasReturned("mergeNewsResults") /\ SeenArticles # <<>> =>
        LET merged == Val(CallResult.data)
            firstAt(url) == CHOOSE i \in 1..Len(SeenArticles) :
                               /\ SeenArticles[i].url = url
                               /\ \A j \in 1..(i - 1) : SeenArticles[j].url # url
        IN /\ CallResult.success
           /\ \A i, j \in 1..Len(merged) : merged[i].url = merged[j].url => i = j
           /\ \A i \in 1..Len(merged) :
                 merged[i] = SeenArticles[firstAt(merged[i].url)]
           /\ Urls(SeenArticles) = Urls(merged)
           /\ \A i, j \in 1..Len(merged) :
                 i < j => firstAt(merged[i].url) < firstAt(merged[j].url)

\* the second result repeats a url of the first under another title, and adds
\* a url of its own
C24_Witness ==
    /\ HasReturned("mergeNewsResults")
    /\ CallArgs[1].data = Some(<<[url |-> "u1", title |-> "a"]>>)
    /\ CallArgs[2].data = Some(<<[url |-> "u1", title |-> "b"],
                                 [url |-> "u2", title |-> "b"]>>)
    /\ CallResult.data = Some(<<[url |-> "u1", title |-> "a"],
                                [url |-> "u2", title |-> "b"]>>)

(***************************************************************************)
(* Progress of a run.                                                      *)
(***************************************************************************)
\* C25: when every external call of a run eventually returns or fails, the
\* entry of the run eventually is complete or failed: it does not stay
\* processing for ever.
C25_RunEventuallyTerminal ==
    \A o \in Objs :
        (o \in Allocated /\ heap[o].status = "processing")
            ~> (o \in Allocated /\ heap[o].status \in Terminal)

\* a run that waited at every suspension point, the reasoning service failing
\* each time, and still ended
C25_Witness ==
    \E o \in Allocated :
        /\ run[o].pc = "done"
        /\ heap[o].status = "complete"
        /\ {"aggregateCompanyData", "evaluateCompanyData",
            "buildFallbackCategoryDescriptions", "buildFallbackDependencies"}
              \subseteq run[o].calls

(***************************************************************************)
(* Resilience of a category (C26)                                          *)
(***************************************************************************)
\* what the resilience score of a category is above 100 - riskScore
ResilienceOffset(categoryScore) ==
    categoryScore.resilienceScore - (100 - categoryScore.riskScore)

\* C26: each category's resilience score is 100 minus its risk score plus a
\* perturbation of at most 4 in absolute value, clamped to 0..100, so it never
\* differs from 100 minus the risk score by more than 4.
C26_ResilienceWithinFourOfComplement ==
    HasReturned("computeRiskScores") =>
        \A i \in 1..4 :
            LET cs == CallResult.categoryScores[i]
            IN /\ \E perturbation \in -4..4 :
                     cs.resilienceScore = clamp(100 - cs.riskScore + perturbation)
               /\ ResilienceOffset(cs) \in -4..4

\* one result in which a category is 4 above and another 4 below the complement
\* of its risk score, neither held back by the clamp
C26_Witness ==
    /\ HasReturned("computeRiskScores")
    /\ \E i, j \in 1..4 :
          /\ ResilienceOffset(CallResult.categoryScores[i]) = 4
          /\ ResilienceOffset(CallResult.categoryScores[j]) = -4

(***************************************************************************)
(* Batch evaluation (C27)                                                  *)
(***************************************************************************)
\* C27: in a batch the evaluation call for an element is in flight only when
\* the calls for all earlier elements have finished and their results are
\* pushed, so at most one call is in flight, and a batch that returns results
\* returns one per element, in input order.
C27_BatchEvaluatesOneAtATime ==
    (~IsNull(call) /\ Val(call).fn = "evaluateBatch") =>
        /\ Cardinality(Val(call).inFlight) <= 1
        /\ Val(call).inFlight \subseteq {Len(Val(call).results) + 1}
        /\ (HasReturned("evaluateBatch") /\ ~CallResult.thrown) =>
              /\ Len(CallResult.value) = Len(CallArgs)
              /\ \A k \in 1..Len(CallArgs) :
                    CallResult.value[k].company = CallArgs[k].company

\* a batch of MaxBatch elements naming both companies has returned its results
C27_Witness ==
    /\ HasReturned("evaluateBatch")
    /\ ~CallResult.thrown
    /\ Len(CallResult.value) = MaxBatch
    /\ {CallResult.value[k].company : k \in 1..MaxBatch} = BatchCompanies
    /\ CallResult.value[1].company # CallResult.value[2].company

(***************************************************************************)
(* The recommendation of a comparison (C28, C30)                           *)
(***************************************************************************)
\* the positions in a compare body's vendors array that carry the winner's id
WinnerPositions(body) ==
    {i \in 1..Len(body.vendors) :
        body.vendors[i].vendor_id = body.recommendation.winner_vendor_id}

\* C28: when the reasoning service is unavailable, the winner of the fallback
\* comparison is a compared vendor whose overall risk score is at most every
\* other compared vendor's; among vendors of equal least risk it is the one
\* asked for first, so the same request over the same results names the same
\* winner.
C28_FallbackWinnerHasLeastRisk ==
    \A idsParam \in IdsParams :
        LET r == CompareResponse(idsParam, [kind |-> "throws", winnerIndex |-> 0,
                                            confidence |-> "Low"])
        IN r.status = 200 =>
              \E w \in WinnerPositions(Val(r.body)) :
                  LET vendors == Val(r.body).vendors
                  IN /\ \A j \in 1..Len(vendors) :
                           vendors[w].overall_risk_score <= vendors[j].overall_risk_score
                     /\ \A j \in 1..(w - 1) :
                           vendors[w].overall_risk_score < vendors[j].overall_risk_score

\* the fallback has just recommended the vendor asked for second, of lower risk
\* than the one asked for first
C28_Witness ==
    /\ ~IsNull(response)
    /\ Val(response).route = "compare"
    /\ Val(response).status = 200
    /\ Val(Val(response).body).recommendation.summary = "fallback"
    /\ WinnerPositions(Val(Val(response).body)) = {2}
    /\ Val(Val(response).body).vendors[2].overall_risk_score
         < Val(Val(response).body).vendors[1].overall_risk_score

\* winner indices the reasoning service may return, in halves: negative,
\* non-integer, within the list, and beyond its end (integer or not)
WinnerIndexAnswers ==
    ComparisonAnswers
    \cup [kind : {"object"}, winnerIndex : {-1, 2 * MaxCompareIds + 1},
          confidence : {"Low"}]

\* C30: in every 200 compare response winner_vendor_id is the id of one of the
\* vendors of that response, whatever winner index the reasoning service
\* returns.
C30_WinnerIsAComparedVendor ==
    \A idsParam \in IdsParams, answer \in WinnerIndexAnswers :
        LET r == CompareResponse(idsParam, answer)
        IN r.status = 200 => WinnerPositions(Val(r.body)) # {}

\* the reasoning service's recommendation of the vendor asked for last has just
\* been returned
C30_Witness ==
    /\ ~IsNull(response)
    /\ Val(response).route = "compare"
    /\ Val(response).status = 200
    /\ Val(Val(response).body).recommendation.summary = "llm"
    /\ WinnerPositions(Val(Val(response).body))
         = {Len(Val(Val(response).body).vendors)}

(***************************************************************************)
(* The fields of an entry (C29)                                            *)
(***************************************************************************)
\* C29: in every reachable state each entry that is processing has no result,
\* no error and no completedAt; each complete entry has a result, no error and
\* a completedAt; each failed entry has no result, an error and a completedAt.
C29_EntryFieldsFollowStatus ==
    \A o \in Allocated :
        LET entry == heap[o]
        IN /\ entry.status \in {"processing"} \cup Terminal
           /\ entry.status = "processing" =>
                 IsNull(entry.result) /\ IsNull(entry.error) /\ IsNull(entry.completedAt)
           /\ entry.status = "complete" =>
                 ~IsNull(entry.result) /\ IsNull(entry.error) /\ ~IsNull(entry.completedAt)
           /\ entry.status = "failed" =>
                 IsNull(entry.result) /\ ~IsNull(entry.error) /\ ~IsNull(entry.completedAt)

\* one entry is complete and another has failed
C29_Witness ==
    \E o, p \in Allocated :
        /\ heap[o].status = "complete" /\ ~IsNull(heap[o].result)
        /\ heap[p].status = "failed" /\ ~IsNull(heap[p].error)
====
